---------------------------- MODULE Spec2Model ----------------------------
(***************************************************************************)
(* A model of the CLIProxy usage collector (src/collector/main.py): the    *)
(* tick run_full_sync_once -> fetch_usage_data -> store_usage_data, with   *)
(* every datastore call of store_usage_data as one atomic step of the      *)
(* thread that runs the tick, so that ticks started by the scheduler and   *)
(* by POST /trigger interleave exactly where the code can be preempted.    *)
(*                                                                         *)
(* Units.  Token counts are in thousands of tokens and prices in           *)
(* thousandths of a dollar per million tokens, so that calculate_cost is   *)
(* exact in integers: its result is in millionths of a dollar (micro-USD). *)
(***************************************************************************)
EXTENDS Integers, Sequences, FiniteSets, TLC

\* ------------------------------------------------------------------ bounds
\* Ticks started in one behaviour of Spec, where ticks of two threads interleave.
MaxTicks == 2
\* Ticks run in one behaviour of SpecSerial, where ticks run one after another.
MaxSerialTicks == 4
\* Cumulative usage levels of one (model, endpoint) key in a usage document.
MaxLevel == 4
\* The levels of the keys of the cheap model, whose amounts all cost cents.
MaxCheapLevel == 2
\* The clock's date runs over 0..MaxDay.
MaxDay == 1

\* --------------------------------------------------------------- constants
\* d_cost > 10 (USD), in micro-USD.
FalseStartMinCost == 10000000
\* abs(d_cost - c_cost) < 0.1 (USD), in micro-USD.
FalseStartTolerance == 100000

Threads == {"scheduler", "trigger"}
Models == {"gpt-4", "gemini-2.5-flash"}
Endpoints == {"api-key-1"}
\* A key "model|endpoint" of prev_usage_map / curr_usage_map.
Keys == Models \X Endpoints
Levels == 0..MaxLevel

\* ----------------------------------------------------------------- helpers
RECURSIVE SumFn(_)
\* sum(f[x] for x in f)
SumFn(f) ==
    IF DOMAIN f = {} THEN 0
    ELSE LET x == CHOOSE y \in DOMAIN f : TRUE
         IN  f[x] + SumFn([y \in DOMAIN f \ {x} |-> f[y]])

Abs(x) == IF x < 0 THEN -x ELSE x
Max(a, b) == IF a >= b THEN a ELSE b
Min(a, b) == IF a <= b THEN a ELSE b

\* Python's int(): truncation toward zero of the rational n / d, d > 0.
TruncDiv(n, d) == IF n >= 0 THEN n \div d ELSE -((-n) \div d)

\* ----------------------------------------------------------------- pricing
\* The entries of DEFAULT_PRICING the modelled model names resolve to.
DEFAULT_PRICING ==
    [m \in Models |->
        IF m = "gpt-4" THEN [input |-> 30000, output |-> 60000]
        ELSE [input |-> 75, output |-> 300]]

\* Both model names are keys of the table: the exact match of line 195.
find_pricing_for_model(model_name) == DEFAULT_PRICING[model_name]

calculate_cost(input_tokens, output_tokens, pricing) ==
    input_tokens * pricing.input + output_tokens * pricing.output

\* ------------------------------------------------------- the usage document
(***************************************************************************)
(* The upstream reports, per (endpoint, model), cumulative counters since  *)
(* the proxy started.  A document gives each key a level: 0 is "the key is *)
(* not in the document"; levels 1 and 2 are small amounts (gpt-4 costs     *)
(* $0.09 and $0.18); from level 3 on the amounts are large (gpt-4 costs    *)
(* $12.00, $12.12, ...).  A level below the previous one is a proxy        *)
(* restart.  The document's global counters are the sums over its keys, as *)
(* the upstream keeps them.                                                *)
(***************************************************************************)
LevelUsage(l) ==
    IF l < 3
    THEN [total_requests |-> l, input_tokens |-> l, output_tokens |-> l,
          total_tokens |-> 2 * l, failed |-> l \div 2]
    ELSE [total_requests |-> l, input_tokens |-> 200 + 2 * (l - 3),
          output_tokens |-> 100 + (l - 3),
          total_tokens |-> 300 + 3 * (l - 3), failed |-> 1]

Docs ==
    {d \in [Keys -> Levels] :
        \A k \in Keys : k[1] = "gemini-2.5-flash" => d[k] <= MaxCheapLevel}

DocKeys(doc) == {k \in DOMAIN doc : doc[k] > 0}

\* usage.get('total_requests', 0) and the other global counters.
Usage(doc) ==
    [total_requests |-> SumFn([k \in DocKeys(doc) |-> LevelUsage(doc[k]).total_requests]),
     failure_count  |-> SumFn([k \in DocKeys(doc) |-> LevelUsage(doc[k]).failed]),
     success_count  |-> SumFn([k \in DocKeys(doc) |->
                            LevelUsage(doc[k]).total_requests - LevelUsage(doc[k]).failed]),
     total_tokens   |-> SumFn([k \in DocKeys(doc) |-> LevelUsage(doc[k]).total_tokens])]

\* model_records: one row per (endpoint, model) of the document.
model_records(doc, snapshot_id) ==
    [k \in DocKeys(doc) |->
        LET u == LevelUsage(doc[k])
        IN  [snapshot_id        |-> snapshot_id,
             model_name         |-> k[1],
             api_endpoint       |-> k[2],
             estimated_cost_usd |-> calculate_cost(u.input_tokens, u.output_tokens,
                                                   find_pricing_for_model(k[1])),
             request_count      |-> u.total_requests,
             input_tokens       |-> u.input_tokens,
             output_tokens      |-> u.output_tokens,
             total_tokens       |-> u.total_tokens]]

\* total_cost: the sum of the rows' costs.
total_cost(doc) ==
    SumFn([k \in DocKeys(doc) |-> model_records(doc, 0)[k].estimated_cost_usd])


\* ------------------------------------------- store_usage_data: the deltas
\* prev.get(..., 0) on a row, or on {} when the key has no row.
ZeroRow ==
    [estimated_cost_usd |-> 0, request_count |-> 0, input_tokens |-> 0,
     output_tokens |-> 0, total_tokens |-> 0]

RowGet(usage_map, key) ==
    IF key \in DOMAIN usage_map THEN usage_map[key] ELSE ZeroRow

\* A slip in lines 354-367: every key is taken for a restarted one.
key_delta_adopt_current(prev_usage_map, curr_usage_map, key) ==
    LET curr == RowGet(curr_usage_map, key)
    IN  [d_req  |-> curr.request_count,
         d_tok  |-> curr.total_tokens,
         d_cost |-> curr.estimated_cost_usd,
         d_in   |-> curr.input_tokens,
         d_out  |-> curr.output_tokens,
         c_cost |-> curr.estimated_cost_usd]

\* Lines 346-374: the delta of one key, with the granular restart detection.
key_delta(prev_usage_map, curr_usage_map, key) ==
    LET prev == RowGet(prev_usage_map, key)
        curr == RowGet(curr_usage_map, key)
        d_req == curr.request_count - prev.request_count
        d_tok == curr.total_tokens - prev.total_tokens
        restart == d_req < 0 \/ d_tok < 0
    IN  [d_req  |-> IF restart THEN curr.request_count ELSE d_req,
         d_tok  |-> IF restart THEN curr.total_tokens ELSE d_tok,
         d_cost |-> IF restart THEN curr.estimated_cost_usd
                    ELSE curr.estimated_cost_usd - prev.estimated_cost_usd,
         d_in   |-> IF restart THEN curr.input_tokens
                    ELSE curr.input_tokens - prev.input_tokens,
         d_out  |-> IF restart THEN curr.output_tokens
                    ELSE curr.output_tokens - prev.output_tokens,
         c_cost |-> curr.estimated_cost_usd]

\* Lines 378-380: the sanity check for false starts.
is_false_start(d) ==
    d.d_cost > FalseStartMinCost /\ Abs(d.d_cost - d.c_cost) < FalseStartTolerance

\* Line 397: what is added to breakdown_deltas.
is_added(d) == d.d_req > 0 \/ d.d_cost > 0

\* Lines 343-395: the keys skipped as false starts (only when prev_snap exists).
false_start_keys(prev_usage_map, curr_usage_map) ==
    {k \in DOMAIN prev_usage_map \cup DOMAIN curr_usage_map :
        is_false_start(key_delta(prev_usage_map, curr_usage_map, k))}

\* A slip in lines 378-395: the false start is logged and not skipped.
contributions_unfiltered(has_prev, prev_usage_map, curr_usage_map) ==
    IF has_prev
    THEN LET all_keys == DOMAIN prev_usage_map \cup DOMAIN curr_usage_map
             kept == {k \in all_keys :
                        is_added(key_delta(prev_usage_map, curr_usage_map, k))}
         IN  [k \in kept |->
                LET d == key_delta(prev_usage_map, curr_usage_map, k)
                IN  [requests |-> d.d_req, tokens |-> d.d_tok, cost |-> d.d_cost,
                     input_tokens |-> d.d_in, output_tokens |-> d.d_out]]
    ELSE [k \in DOMAIN curr_usage_map |->
            LET r == curr_usage_map[k]
            IN  [requests |-> r.request_count, tokens |-> r.total_tokens,
                 cost |-> r.estimated_cost_usd,
                 input_tokens |-> r.input_tokens, output_tokens |-> r.output_tokens]]

\* A slip in lines 427-458: the first snapshot is taken as a zero delta.
contributions_none_first(has_prev, prev_usage_map, curr_usage_map) ==
    IF has_prev
    THEN LET all_keys == DOMAIN prev_usage_map \cup DOMAIN curr_usage_map
             kept == {k \in all_keys :
                        LET d == key_delta(prev_usage_map, curr_usage_map, k)
                        IN  ~is_false_start(d) /\ is_added(d)}
         IN  [k \in kept |->
                LET d == key_delta(prev_usage_map, curr_usage_map, k)
                IN  [requests |-> d.d_req, tokens |-> d.d_tok, cost |-> d.d_cost,
                     input_tokens |-> d.d_in, output_tokens |-> d.d_out]]
    ELSE << >>

\* The per-key contributions to breakdown_deltas: lines 345-424 when prev_snap
\* exists (has_prev), lines 429-458 (every row, with its current values) when not.
contributions(has_prev, prev_usage_map, curr_usage_map) ==
    IF has_prev
    THEN LET all_keys == DOMAIN prev_usage_map \cup DOMAIN curr_usage_map
             kept == {k \in all_keys :
                        LET d == key_delta(prev_usage_map, curr_usage_map, k)
                        IN  ~is_false_start(d) /\ is_added(d)}
         IN  [k \in kept |->
                LET d == key_delta(prev_usage_map, curr_usage_map, k)
                IN  [requests |-> d.d_req, tokens |-> d.d_tok, cost |-> d.d_cost,
                     input_tokens |-> d.d_in, output_tokens |-> d.d_out]]
    ELSE [k \in DOMAIN curr_usage_map |->
            LET r == curr_usage_map[k]
            IN  [requests |-> r.request_count, tokens |-> r.total_tokens,
                 cost |-> r.estimated_cost_usd,
                 input_tokens |-> r.input_tokens, output_tokens |-> r.output_tokens]]

\* The sum of one field of the contributions of the keys in ks.
FieldSum(contrib, ks, field) == SumFn([k \in ks |-> contrib[k][field]])

\* breakdown_deltas, built from the contributions (lines 402-424, 438-458).
breakdown_deltas(contrib) ==
    LET ks == DOMAIN contrib
        ofModel(m) == {k \in ks : k[1] = m}
        ofEndpoint(e) == {k \in ks : k[2] = e}
    IN  [models |->
            [m \in {k[1] : k \in ks} |->
                [requests      |-> FieldSum(contrib, ofModel(m), "requests"),
                 tokens        |-> FieldSum(contrib, ofModel(m), "tokens"),
                 cost          |-> FieldSum(contrib, ofModel(m), "cost"),
                 input_tokens  |-> FieldSum(contrib, ofModel(m), "input_tokens"),
                 output_tokens |-> FieldSum(contrib, ofModel(m), "output_tokens")]],
         endpoints |->
            [e \in {k[2] : k \in ks} |->
                [requests |-> FieldSum(contrib, ofEndpoint(e), "requests"),
                 tokens   |-> FieldSum(contrib, ofEndpoint(e), "tokens"),
                 cost     |-> FieldSum(contrib, ofEndpoint(e), "cost"),
                 models   |->
                    [m \in {k[1] : k \in ofEndpoint(e)} |->
                        [requests |-> contrib[<<m, e>>].requests,
                         tokens   |-> contrib[<<m, e>>].tokens,
                         cost     |-> contrib[<<m, e>>].cost]]]]]

\* sum(m[field] for m in breakdown['models'].values())
ModelsSum(breakdown, field) ==
    SumFn([m \in DOMAIN breakdown.models |-> breakdown.models[m][field]])

\* ---------------------------------- store_usage_data: the global increments
\* An optional value (prev_snap, a fetched document) is a sequence of length 0 or 1.
NoneValue == << >>
Some(x) == <<x>>
IsSome(o) == Len(o) = 1
Get(o) == o[1]

\* Lines 285-314: inc_* from the previous snapshot, with the restart detection.
global_inc(prev_snap, current, cumulative_cost, tcost) ==
    LET adopt == [requests |-> current.total_requests,
                  success  |-> current.success_count,
                  failure  |-> current.failure_count,
                  tokens   |-> current.total_tokens,
                  cost     |-> tcost]
    IN  IF IsSome(prev_snap)
        THEN LET p == Get(prev_snap)
                 inc == [requests |-> current.total_requests - p.total_requests,
                         success  |-> current.success_count - p.success_count,
                         failure  |-> current.failure_count - p.failure_count,
                         tokens   |-> current.total_tokens - p.total_tokens,
                         cost     |-> cumulative_cost - p.cumulative_cost_usd]
             IN  IF inc.requests < 0 \/ inc.tokens < 0 THEN adopt ELSE inc
        ELSE adopt

\* Lines 468-484: the consistency check and global override of a tick that has
\* a previous snapshot.  inc is the result of global_inc, fs the false-start
\* keys whose deltas lines 383-385 subtracted from it, deltas breakdown_deltas.
\* ratio < 0.99 is 100 * safe < 99 * inc for inc > 0; int() truncates.
override_inc(inc, prev_usage_map, curr_usage_map, fs, deltas) ==
    LET safe_inc_requests == ModelsSum(deltas, "requests")
        inc_requests == inc.requests
            - SumFn([k \in fs |-> key_delta(prev_usage_map, curr_usage_map, k).d_req])
        num == Max(0, Min(inc_requests, safe_inc_requests))
        adjust == inc_requests > 0 /\ 100 * num < 99 * inc_requests
    IN  [requests |-> safe_inc_requests,
         tokens   |-> ModelsSum(deltas, "tokens"),
         cost     |-> ModelsSum(deltas, "cost"),
         success  |-> IF adjust THEN TruncDiv(inc.success * num, inc_requests)
                      ELSE inc.success,
         failure  |-> IF adjust THEN TruncDiv(inc.failure * num, inc_requests)
                      ELSE inc.failure]

\* ------------------------------------------- store_usage_data: the day's row
\* Lines 318-321: the daily_stats row assumed when today has none.
NoDaily ==
    [total_requests |-> 0, success_count |-> 0, failure_count |-> 0,
     total_tokens |-> 0, estimated_cost_usd |-> 0,
     breakdown |-> [models |-> << >>, endpoints |-> << >>]]

ZeroModel ==
    [requests |-> 0, tokens |-> 0, cost |-> 0, input_tokens |-> 0, output_tokens |-> 0]
ZeroNested == [requests |-> 0, tokens |-> 0, cost |-> 0]
ZeroEndpoint == [requests |-> 0, tokens |-> 0, cost |-> 0, models |-> << >>]

At(f, x, zero) == IF x \in DOMAIN f THEN f[x] ELSE zero

\* A slip in lines 512-519: the delta of a nested model is assigned to its
\* entry, not added to it.
merge_nested_assign(existing, data) ==
    [m \in DOMAIN existing \cup DOMAIN data |->
        IF m \in DOMAIN data THEN data[m] ELSE existing[m]]

\* Lines 512-519: the nested models of one endpoint.
merge_nested(existing, data) ==
    [m \in DOMAIN existing \cup DOMAIN data |->
        LET a == At(existing, m, ZeroNested)
            b == At(data, m, ZeroNested)
        IN  [requests |-> a.requests + b.requests,
             tokens   |-> a.tokens + b.tokens,
             cost     |-> a.cost + b.cost]]

\* A slip in lines 486-519: a delta is assigned to its entry, not added to it.
merge_breakdown_assign(existing_breakdown, deltas) ==
    [models |->
        [m \in DOMAIN existing_breakdown.models \cup DOMAIN deltas.models |->
            IF m \in DOMAIN deltas.models THEN deltas.models[m]
            ELSE existing_breakdown.models[m]],
     endpoints |->
        [e \in DOMAIN existing_breakdown.endpoints \cup DOMAIN deltas.endpoints |->
            IF e \in DOMAIN deltas.endpoints THEN deltas.endpoints[e]
            ELSE existing_breakdown.endpoints[e]]]

\* Lines 486-519: breakdown_deltas merged into the day's breakdown.
merge_breakdown(existing_breakdown, deltas) ==
    [models |->
        [m \in DOMAIN existing_breakdown.models \cup DOMAIN deltas.models |->
            LET a == At(existing_breakdown.models, m, ZeroModel)
                b == At(deltas.models, m, ZeroModel)
            IN  [requests      |-> a.requests + b.requests,
                 tokens        |-> a.tokens + b.tokens,
                 cost          |-> a.cost + b.cost,
                 input_tokens  |-> a.input_tokens + b.input_tokens,
                 output_tokens |-> a.output_tokens + b.output_tokens]],
     endpoints |->
        [e \in DOMAIN existing_breakdown.endpoints \cup DOMAIN deltas.endpoints |->
            LET a == At(existing_breakdown.endpoints, e, ZeroEndpoint)
                b == At(deltas.endpoints, e, ZeroEndpoint)
            IN  [requests |-> a.requests + b.requests,
                 tokens   |-> a.tokens + b.tokens,
                 cost     |-> a.cost + b.cost,
                 models   |-> merge_nested(a.models, b.models)]]]

\* A slip in lines 533-538: the tick's increment is stored as the day's total.
final_total_of_tick(from_breakdown, existing, inc) ==
    IF from_breakdown > 0 THEN inc ELSE existing + inc

\* Lines 533-538: the recalculated total, or the incremental one when the
\* breakdown's sum is not positive.
final_total(from_breakdown, existing, inc) ==
    IF from_breakdown > 0 THEN from_breakdown ELSE existing + inc

\* Lines 285-548: the row store_usage_data upserts, from what the tick has read
\* (prev_snap, its rows, today's row) and its own document.
daily_data(today, existing_daily, prev_snap, prev_usage_map, doc, cumulative_cost) ==
    LET current == Usage(doc)
        curr_usage_map == model_records(doc, 0)
        has_prev == IsSome(prev_snap)
        inc0 == global_inc(prev_snap, current, cumulative_cost, total_cost(doc))
        fs == IF has_prev THEN false_start_keys(prev_usage_map, curr_usage_map) ELSE {}
        deltas == breakdown_deltas(contributions(has_prev, prev_usage_map, curr_usage_map))
        inc == IF has_prev
               THEN override_inc(inc0, prev_usage_map, curr_usage_map, fs, deltas)
               ELSE inc0
        merged == merge_breakdown(existing_daily.breakdown, deltas)
    IN  [stat_date          |-> today,
         total_requests     |-> final_total(ModelsSum(merged, "requests"),
                                            existing_daily.total_requests, inc.requests),
         success_count      |-> existing_daily.success_count + inc.success,
         failure_count      |-> existing_daily.failure_count + inc.failure,
         total_tokens       |-> final_total(ModelsSum(merged, "tokens"),
                                            existing_daily.total_tokens, inc.tokens),
         estimated_cost_usd |-> final_total(ModelsSum(merged, "cost"),
                                            existing_daily.estimated_cost_usd, inc.cost),
         breakdown          |-> merged]

\* ------------------------------------------------------------------- state
VARIABLES
    usage_snapshots,  \* table usage_snapshots, ordered by collected_at
    model_usage,      \* table model_usage: model_usage[id] are snapshot id's rows
    daily_stats,      \* table daily_stats: stat_date -> row
    date,             \* datetime.now(APP_TIMEZONE).date()
    tick,             \* per thread: where its run_full_sync_once is, and its locals
    log,              \* history: one entry per tick started, in the order of start
    clock,            \* datetime.now(APP_TIMEZONE), in seconds since a Monday 00:00
    usage_rows,       \* table model_usage as rate_limiter.py reads it, by created_at
    rate_limit_configs, \* table rate_limit_configs
    rate_limit_status,  \* table rate_limit_status: config_id -> row
    sync,             \* where sync_limits is, and the configs it fetched
    last_run,         \* history: config id -> what its last _process_config saw
    proxy,            \* what the management API of the proxy serves
    credential_usage_summary, \* table credential_usage_summary: id -> row
    last_sync,        \* history: what the last CredentialStatsSync.sync fetched and returned
    remote_pricing_cache,      \* global remote_pricing_cache
    remote_pricing_last_fetch, \* global remote_pricing_last_fetch
    last_pricing      \* history: the last call of get_model_pricing

db == <<usage_snapshots, model_usage, daily_stats>>
\* The state of rate_limiter.py, which main.py never changes.
limits == <<clock, usage_rows, rate_limit_configs, rate_limit_status, sync, last_run>>
\* The state of main.py, which rate_limiter.py only reads.
collector == <<usage_snapshots, model_usage, daily_stats, date, tick, log>>
\* The state of credential_stats_sync.py.
credentials == <<proxy, credential_usage_summary, last_sync>>
\* The pricing cache of main.py.
prices == <<remote_pricing_cache, remote_pricing_last_fetch, last_pricing>>
vars == <<usage_snapshots, model_usage, daily_stats, date, tick, log,
          clock, usage_rows, rate_limit_configs, rate_limit_status, sync, last_run,
          proxy, credential_usage_summary, last_sync,
          remote_pricing_cache, remote_pricing_last_fetch, last_pricing>>

ZeroDoc == [k \in Keys |-> 0]

\* The statements of store_usage_data that call the datastore, in program order.
DbOps == {"select_last_cost", "insert_snapshot", "insert_model_usage",
          "update_snapshot", "select_prev_snap", "select_daily_stats",
          "select_prev_usage", "upsert_daily_stats"}

IdleTick ==
    [pc |-> "idle", doc |-> ZeroDoc, last_cost_total |-> 0, snapshot_id |-> 0,
     prev_snap |-> NoneValue, today |-> 0, existing_daily |-> NoDaily,
     prev_usage_map |-> << >>, n |-> 0]

\* What fetch_usage_data can return (lines 173-183): None on a transport error
\* or a non-200 response, else the decoded document, with or without 'usage'.
FetchResults(docs) ==
    {[ok |-> FALSE, has_usage |-> FALSE, doc |-> ZeroDoc],
     [ok |-> TRUE, has_usage |-> FALSE, doc |-> ZeroDoc]}
    \cup {[ok |-> TRUE, has_usage |-> TRUE, doc |-> d] : d \in docs}

Running(t) == tick[t].pc # "idle"

\* sync_limits is not running.
IdleSync == [pc |-> "idle", configs |-> << >>, i |-> 0]

\* main.py before the first tick.
InitCollector ==
    /\ usage_snapshots = << >>
    /\ model_usage = << >>
    /\ daily_stats = << >>
    /\ date = 0
    /\ tick = [t \in Threads |-> IdleTick]
    /\ log = << >>

\* credential_stats_sync.py before the first sync, the proxy serving nothing.
NoProxy == [apis |-> << >>, details |-> << >>, auth_files |-> << >>]
InitCredentials ==
    /\ proxy = NoProxy
    /\ credential_usage_summary = << >>
    /\ last_sync = << >>

\* Lines 91-92.
InitPrices ==
    /\ remote_pricing_cache = << >>
    /\ remote_pricing_last_fetch = 0
    /\ last_pricing = << >>

Init ==
    /\ InitCollector
    /\ InitCredentials
    /\ InitPrices
    /\ clock = 0
    /\ usage_rows = << >>
    /\ rate_limit_configs = << >>
    /\ rate_limit_status = << >>
    /\ sync = IdleSync
    /\ last_run = << >>

\* The history entry of thread t's running tick, with one more write.
LogWrite(t, table) ==
    [log EXCEPT ![tick[t].n].writes = Append(@, table)]

Goto(t, pc) == [tick EXCEPT ![t].pc = pc]

\* ------------------------------------------------------ run_full_sync_once
\* Lines 105-111 (POST /trigger starts a thread) and 576-590 (the interval job):
\* thread t starts run_full_sync_once, which fetches (lines 130-137) and enters
\* store_usage_data up to its guard (lines 206-211).  Nothing is locked.
may_start(t) == ~Running(t)

\* A slip in line 208: the document is not checked for its 'usage' section.
reaches_store_unchecked(data) == data.ok

\* Lines 134 and 208: the fetch returned a document and it has a 'usage' section.
reaches_store(data) == data.ok /\ data.has_usage

Start(t) ==
    /\ may_start(t)
    /\ Len(log) < MaxTicks
    /\ \E data \in FetchResults(Docs) :
        LET stores == reaches_store(data)
            others == {u \in Threads \ {t} : Running(u)}
            entry == [thread |-> t, data |-> data,
                      alone |-> others = {},
                      outcome |-> IF ~data.ok THEN "no_data"
                                  ELSE IF ~data.has_usage THEN "no_usage"
                                  ELSE "running",
                      writes |-> << >>]
            marked == [i \in DOMAIN log |->
                         IF \E u \in others : tick[u].n = i
                         THEN [log[i] EXCEPT !.alone = FALSE] ELSE log[i]]
        IN  /\ log' = Append(marked, entry)
            /\ tick' = IF stores
                       THEN [tick EXCEPT ![t] =
                               [IdleTick EXCEPT !.pc = "select_last_cost",
                                                !.doc = data.doc,
                                                !.n = Len(log) + 1]]
                       ELSE tick
    /\ UNCHANGED <<usage_snapshots, model_usage, daily_stats, date>>
    /\ UNCHANGED <<limits, credentials, prices>>

\* --------------------------------------------------------- store_usage_data
\* Lines 229-235.
SelectLastCost(t) ==
    /\ tick[t].pc = "select_last_cost"
    /\ tick' = [tick EXCEPT
                  ![t].pc = "insert_snapshot",
                  ![t].last_cost_total =
                      IF usage_snapshots = << >> THEN 0
                      ELSE usage_snapshots[Len(usage_snapshots)].cumulative_cost_usd]
    /\ UNCHANGED <<usage_snapshots, model_usage, daily_stats, date, log>>
    /\ UNCHANGED <<limits, credentials, prices>>

\* Lines 221-238: the row inserted, collected_at and id assigned by the store.
snapshot_data(doc, id, last_cost_total) ==
    [id |-> id, raw_data |-> doc,
     total_requests |-> Usage(doc).total_requests,
     success_count |-> Usage(doc).success_count,
     failure_count |-> Usage(doc).failure_count,
     total_tokens |-> Usage(doc).total_tokens,
     cumulative_cost_usd |-> last_cost_total]

InsertSnapshot(t) ==
    /\ tick[t].pc = "insert_snapshot"
    /\ LET id == Len(usage_snapshots) + 1
       IN  /\ usage_snapshots' =
                Append(usage_snapshots,
                       snapshot_data(tick[t].doc, id, tick[t].last_cost_total))
           /\ model_usage' = Append(model_usage, << >>)
           /\ tick' = [tick EXCEPT
                         ![t].snapshot_id = id,
                         \* line 261: no insert when model_records is empty
                         ![t].pc = IF DocKeys(tick[t].doc) = {} THEN "update_snapshot"
                                   ELSE "insert_model_usage"]
    /\ log' = LogWrite(t, "usage_snapshots")
    /\ UNCHANGED <<daily_stats, date>>
    /\ UNCHANGED <<limits, credentials, prices>>

\* Lines 261-262.
InsertModelUsage(t) ==
    /\ tick[t].pc = "insert_model_usage"
    /\ model_usage' = [model_usage EXCEPT
                         ![tick[t].snapshot_id] =
                             model_records(tick[t].doc, tick[t].snapshot_id)]
    /\ tick' = Goto(t, "update_snapshot")
    /\ log' = LogWrite(t, "model_usage")
    /\ UNCHANGED <<usage_snapshots, daily_stats, date>>
    /\ UNCHANGED <<limits, credentials, prices>>

\* Line 265.
cumulative_cost(tk) == tk.last_cost_total + total_cost(tk.doc)

\* A slip in line 266: the update is given to the latest snapshot, whoever
\* inserted it.
UpdateSnapshotLatest(t) ==
    /\ tick[t].pc = "update_snapshot"
    /\ usage_snapshots' = [usage_snapshots EXCEPT
                             ![Len(usage_snapshots)].cumulative_cost_usd =
                                 cumulative_cost(tick[t])]
    /\ tick' = Goto(t, "select_prev_snap")
    /\ log' = LogWrite(t, "usage_snapshots")
    /\ UNCHANGED <<model_usage, daily_stats, date>>
    /\ UNCHANGED <<limits, credentials, prices>>

\* Line 266.
UpdateSnapshot(t) ==
    /\ tick[t].pc = "update_snapshot"
    /\ usage_snapshots' = [usage_snapshots EXCEPT
                             ![tick[t].snapshot_id].cumulative_cost_usd =
                                 cumulative_cost(tick[t])]
    /\ tick' = Goto(t, "select_prev_snap")
    /\ log' = LogWrite(t, "usage_snapshots")
    /\ UNCHANGED <<model_usage, daily_stats, date>>
    /\ UNCHANGED <<limits, credentials, prices>>

\* Lines 276-283: the second of the two latest snapshots by collected_at.
select_prev_snap(snapshots) ==
    IF Len(snapshots) >= 2 THEN Some(snapshots[Len(snapshots) - 1]) ELSE NoneValue

\* Lines 270-283: today is read, then the previous snapshot.
SelectPrevSnap(t) ==
    /\ tick[t].pc = "select_prev_snap"
    /\ tick' = [tick EXCEPT ![t].pc = "select_daily_stats",
                            ![t].today = date,
                            ![t].prev_snap = select_prev_snap(usage_snapshots)]
    /\ UNCHANGED <<usage_snapshots, model_usage, daily_stats, date, log>>
    /\ UNCHANGED <<limits, credentials, prices>>

\* A slip in lines 317-321: the row of the latest stat_date is read, whether
\* it is today's or not.
SelectDailyStatsLatest(t) ==
    /\ tick[t].pc = "select_daily_stats"
    /\ tick' = [tick EXCEPT
                  ![t].existing_daily =
                      IF DOMAIN daily_stats = {} THEN NoDaily
                      ELSE daily_stats[CHOOSE d \in DOMAIN daily_stats :
                                          \A e \in DOMAIN daily_stats : e <= d],
                  ![t].pc = IF IsSome(tick[t].prev_snap) THEN "select_prev_usage"
                            ELSE "upsert_daily_stats"]
    /\ UNCHANGED <<usage_snapshots, model_usage, daily_stats, date, log>>
    /\ UNCHANGED <<limits, credentials, prices>>

\* Lines 317-321.
SelectDailyStats(t) ==
    /\ tick[t].pc = "select_daily_stats"
    /\ tick' = [tick EXCEPT
                  ![t].existing_daily = At(daily_stats, tick[t].today, NoDaily),
                  \* line 326: the previous rows are read only when prev_snap exists
                  ![t].pc = IF IsSome(tick[t].prev_snap) THEN "select_prev_usage"
                            ELSE "upsert_daily_stats"]
    /\ UNCHANGED <<usage_snapshots, model_usage, daily_stats, date, log>>
    /\ UNCHANGED <<limits, credentials, prices>>

\* Lines 329-335.
SelectPrevUsage(t) ==
    /\ tick[t].pc = "select_prev_usage"
    /\ tick' = [tick EXCEPT
                  ![t].pc = "upsert_daily_stats",
                  ![t].prev_usage_map = model_usage[Get(tick[t].prev_snap).id]]
    /\ UNCHANGED <<usage_snapshots, model_usage, daily_stats, date, log>>
    /\ UNCHANGED <<limits, credentials, prices>>

\* The row thread t is about to upsert.
daily_data_of(tk) ==
    daily_data(tk.today, tk.existing_daily, tk.prev_snap, tk.prev_usage_map,
               tk.doc, cumulative_cost(tk))

Upsert(table, key, row) ==
    [x \in DOMAIN table \cup {key} |-> IF x = key THEN row ELSE table[x]]

\* Lines 540-553: the upsert by stat_date, and return True.
UpsertDailyStats(t) ==
    /\ tick[t].pc = "upsert_daily_stats"
    /\ daily_stats' = Upsert(daily_stats, tick[t].today, daily_data_of(tick[t]))
    /\ log' = [LogWrite(t, "daily_stats") EXCEPT ![tick[t].n].outcome = "stored"]
    /\ tick' = [tick EXCEPT ![t] = IdleTick]
    /\ UNCHANGED <<usage_snapshots, model_usage, date>>
    /\ UNCHANGED <<limits, credentials, prices>>

\* A slip in lines 554-556: the call that raised is tried again.
except_handler_retry(tk) == tk

\* Lines 554-556: a datastore call raises; the handler logs and returns False.
except_handler(tk) == IdleTick

Raise(t) ==
    /\ tick[t].pc \in DbOps
    /\ log' = [log EXCEPT ![tick[t].n].outcome = "failed"]
    /\ tick' = [tick EXCEPT ![t] = except_handler(tick[t])]
    /\ UNCHANGED <<usage_snapshots, model_usage, daily_stats, date>>
    /\ UNCHANGED <<limits, credentials, prices>>

\* The date of the configured timezone advances at midnight.
Midnight ==
    /\ date < MaxDay
    /\ date' = date + 1
    /\ UNCHANGED <<usage_snapshots, model_usage, daily_stats, tick, log>>
    /\ UNCHANGED <<limits, credentials, prices>>

Step(t) ==
    \/ SelectLastCost(t)
    \/ InsertSnapshot(t)
    \/ InsertModelUsage(t)
    \/ UpdateSnapshot(t)
    \/ SelectPrevSnap(t)
    \/ SelectDailyStats(t)
    \/ SelectPrevUsage(t)
    \/ UpsertDailyStats(t)
    \/ Raise(t)

Next ==
    \/ \E t \in Threads : Start(t)
    \/ \E t \in Threads : Step(t)
    \/ Midnight

Spec == Init /\ [][Next]_vars

\* ------------------------------------------- ticks that run one after another
\* Lines 213-553 run by one thread with no other tick between its datastore
\* calls: the store after store_usage_data(data) has returned True.
store_usage_data(store, doc, today) ==
    LET last_cost_total ==
            IF store.usage_snapshots = << >> THEN 0
            ELSE store.usage_snapshots[Len(store.usage_snapshots)].cumulative_cost_usd
        id == Len(store.usage_snapshots) + 1
        tk == [IdleTick EXCEPT !.doc = doc, !.last_cost_total = last_cost_total,
                               !.snapshot_id = id, !.today = today]
        snapshots == Append(store.usage_snapshots,
                            [snapshot_data(doc, id, last_cost_total)
                                EXCEPT !.cumulative_cost_usd = cumulative_cost(tk)])
        rows == Append(store.model_usage, model_records(doc, id))
        prev_snap == select_prev_snap(snapshots)
        read == [tk EXCEPT
                   !.prev_snap = prev_snap,
                   !.existing_daily = At(store.daily_stats, today, NoDaily),
                   !.prev_usage_map = IF IsSome(prev_snap) THEN rows[Get(prev_snap).id]
                                      ELSE << >>]
    IN  [usage_snapshots |-> snapshots,
         model_usage     |-> rows,
         daily_stats     |-> Upsert(store.daily_stats, today, daily_data_of(read))]

Store == [usage_snapshots |-> usage_snapshots, model_usage |-> model_usage,
          daily_stats |-> daily_stats]

EmptyStore == [usage_snapshots |-> << >>, model_usage |-> << >>, daily_stats |-> << >>]

\* The interval job (lines 576-590) with nobody posting to /trigger: one whole
\* tick whose fetch succeeds and whose datastore calls all succeed.
SerialTick ==
    /\ Len(log) < MaxSerialTicks
    /\ \E doc \in Docs :
        \E after \in {store_usage_data(Store, doc, date)} :
            /\ usage_snapshots' = after.usage_snapshots
            /\ model_usage' = after.model_usage
            /\ daily_stats' = after.daily_stats
            /\ log' = Append(log,
                        [thread |-> "scheduler",
                         data |-> [ok |-> TRUE, has_usage |-> TRUE, doc |-> doc],
                         alone |-> TRUE, outcome |-> "stored",
                         writes |-> IF DocKeys(doc) = {}
                                    THEN <<"usage_snapshots", "usage_snapshots",
                                           "daily_stats">>
                                    ELSE <<"usage_snapshots", "model_usage",
                                           "usage_snapshots", "daily_stats">>])
    /\ UNCHANGED <<date, tick>>
    /\ UNCHANGED <<limits, credentials, prices>>

NextSerial == SerialTick

SpecSerial == Init /\ [][NextSerial]_vars

RECURSIVE Replay(_, _, _)
\* The store after the ticks of documents docs[1..n] ran one after another on
\* date 0 from the empty store.
Replay(docs, n, store) ==
    IF n = 0 THEN store
    ELSE store_usage_data(Replay(docs, n - 1, store), docs[n], 0)

\* ================================================================== claims
Range(seq) == {seq[i] : i \in DOMAIN seq}
AllIdle == \A t \in Threads : ~Running(t)
\* The documents of the ticks that reached the datastore, in the order of start.
StoredDocs ==
    LET kept == SelectSeq(log, LAMBDA e : e.data.ok /\ e.data.has_usage)
    IN  [i \in DOMAIN kept |-> kept[i].data.doc]

\* C1: every persisted DailyStat has total_requests, total_tokens and
\* estimated_cost_usd equal to the sums of requests, tokens and cost over its
\* breakdown.models, whatever ticks ran, failed or overlapped before.
C1_BreakdownCoherence ==
    \A d \in DOMAIN daily_stats :
        /\ daily_stats[d].total_requests = ModelsSum(daily_stats[d].breakdown, "requests")
        /\ daily_stats[d].total_tokens = ModelsSum(daily_stats[d].breakdown, "tokens")
        /\ daily_stats[d].estimated_cost_usd = ModelsSum(daily_stats[d].breakdown, "cost")

\* C1's case: a day's row that two ticks have upserted and that holds usage.
C1_Witness ==
    /\ \A i \in DOMAIN log : log[i].outcome = "stored"
    /\ Len(log) = 2
    /\ \E d \in DOMAIN daily_stats :
        /\ daily_stats[d].total_requests > 2
        /\ daily_stats[d].estimated_cost_usd > 0
        /\ Cardinality(DOMAIN daily_stats[d].breakdown.models) = 2

\* C3: at most one tick is executing at any time.
C3_OneTickAtATime == Cardinality({t \in Threads : Running(t)}) <= 1

\* C4: after two ticks that overlapped have both stored, on one date, the
\* DailyStat is the one that running the two ticks one after the other gives,
\* in one order or the other.
C4_OverlapIsSerial ==
    (/\ AllIdle
     /\ date = 0
     /\ Len(log) = 2
     /\ \A i \in DOMAIN log : log[i].outcome = "stored" /\ ~log[i].alone)
    => LET d1 == log[1].data.doc
           d2 == log[2].data.doc
       IN  daily_stats \in {Replay(<<d1, d2>>, 2, EmptyStore).daily_stats,
                            Replay(<<d2, d1>>, 2, EmptyStore).daily_stats}

\* C5: when a tick failed after inserting its Snapshot and ModelUsageRows and
\* before the DailyStat upsert, and the next tick stores, the DailyStat is what
\* it would be had the failed tick completed.
C5_FailedTickIsRecovered ==
    (/\ AllIdle
     /\ date = 0
     /\ Len(log) = 2
     /\ log[1].alone /\ log[2].alone
     /\ log[1].outcome = "failed"
     /\ "model_usage" \in Range(log[1].writes)
     /\ log[2].outcome = "stored")
    => daily_stats =
         Replay(<<log[1].data.doc, log[2].data.doc>>, 2, EmptyStore).daily_stats

\* C6: the writes of every tick that stores are, in this order, the Snapshot
\* insert, its ModelUsageRow insert, the DailyStat upsert and then the
\* RateLimitStatus updates.
C6_WriteOrder ==
    \A i \in DOMAIN log :
        log[i].outcome = "stored" =>
            \E a, b, c, d \in DOMAIN log[i].writes :
                /\ a < b /\ b < c /\ c < d
                /\ log[i].writes[a] = "usage_snapshots"
                /\ log[i].writes[b] = "model_usage"
                /\ log[i].writes[c] = "daily_stats"
                /\ log[i].writes[d] = "rate_limit_status"

\* C7: a tick whose fetch fails, or whose document has no usage section,
\* changes no table and leaves its thread idle; and the store after ticks that
\* ran one after another is the store the ticks with a usage section alone give.
C7_NoUsageNoWrite ==
    /\ [][(Len(log') > Len(log)
            /\ ~(log'[Len(log')].data.ok /\ log'[Len(log')].data.has_usage))
          => /\ UNCHANGED <<db, tick>>
             /\ log'[Len(log')].writes = << >>]_vars
    /\ [](\A i \in DOMAIN log :
            ~(log[i].data.ok /\ log[i].data.has_usage) => log[i].writes = << >>)
    /\ []((AllIdle /\ date = 0
            /\ \A i \in DOMAIN log : log[i].alone /\ log[i].outcome # "failed")
          => Store = Replay(StoredDocs, Len(StoredDocs), EmptyStore))

\* C7's case: a fetch failed, and a later tick stored.
C7_Witness ==
    /\ Len(log) = 2
    /\ ~log[1].data.ok
    /\ log[2].outcome = "stored"
    /\ usage_snapshots # << >>

\* C8: when a datastore call of a tick raises, the tick ends there as failed
\* and changes no table in that step; a failed tick makes no further datastore
\* call, and it never wrote the DailyStat.
C8_RaiseAborts ==
    /\ [][\A t \in Threads :
            (Running(t) /\ log[tick[t].n].outcome # "failed"
                /\ log'[tick[t].n].outcome = "failed")
            => /\ ~Running(t)'
               /\ UNCHANGED db]_vars
    /\ [][\A i \in DOMAIN log : log[i].outcome = "failed" => log'[i] = log[i]]_vars
    /\ [](\A i \in DOMAIN log :
            log[i].outcome = "failed" =>
                /\ "daily_stats" \notin Range(log[i].writes)
                /\ \A t \in Threads : Running(t) => tick[t].n # i)

\* C8's case: a tick failed after its first writes, and the other tick went on.
C8_Witness ==
    \E i \in DOMAIN log :
        /\ log[i].outcome = "failed"
        /\ Len(log[i].writes) = 3
        /\ \E t \in Threads : Running(t)

\* ------------------------------------------------- one tick of SpecSerial
\* A step of SpecSerial is one whole tick: it appends the tick's snapshot.
TickStep == Len(usage_snapshots') = Len(usage_snapshots) + 1
\* The snapshot before the tick's and its rows, the tick's snapshot and rows.
PrevSnapshot == usage_snapshots[Len(usage_snapshots)]
CurrSnapshot == usage_snapshots'[Len(usage_snapshots')]
PrevRows == IF usage_snapshots = << >> THEN << >> ELSE model_usage[Len(model_usage)]
CurrRows == model_usage'[Len(model_usage')]
\* The day's row before and after the tick.
OldDaily == At(daily_stats, date, NoDaily)
NewDaily == daily_stats'[date]
\* What the tick added for key k: per model and per endpoint, each model has
\* one key, so the model's entry is the key's.
AddedToModel(k) ==
    LET new == At(NewDaily.breakdown.models, k[1], ZeroModel)
        old == At(OldDaily.breakdown.models, k[1], ZeroModel)
    IN  [requests |-> new.requests - old.requests,
         tokens   |-> new.tokens - old.tokens,
         cost     |-> new.cost - old.cost]
AddedToEndpoint(k) ==
    LET new == At(At(NewDaily.breakdown.endpoints, k[2], ZeroEndpoint).models,
                  k[1], ZeroNested)
        old == At(At(OldDaily.breakdown.endpoints, k[2], ZeroEndpoint).models,
                  k[1], ZeroNested)
    IN  [requests |-> new.requests - old.requests,
         tokens   |-> new.tokens - old.tokens,
         cost     |-> new.cost - old.cost]
AddedToTotals ==
    [requests |-> NewDaily.total_requests - OldDaily.total_requests,
     tokens   |-> NewDaily.total_tokens - OldDaily.total_tokens,
     cost     |-> NewDaily.estimated_cost_usd - OldDaily.estimated_cost_usd]
Nothing == [requests |-> 0, tokens |-> 0, cost |-> 0]
\* Key k's delta from rows prev to rows curr is a false start.
FalseStart(prev, curr, k) == is_false_start(key_delta(prev, curr, k))
\* The sum of the deltas of the keys in ks, from PrevRows to CurrRows.
DeltaSum(ks) ==
    [requests |-> SumFn([k \in ks |-> key_delta(PrevRows, CurrRows, k).d_req]),
     tokens   |-> SumFn([k \in ks |-> key_delta(PrevRows, CurrRows, k).d_tok]),
     cost     |-> SumFn([k \in ks |-> key_delta(PrevRows, CurrRows, k).d_cost])]
\* Every false-start key of the tick is kept out of the breakdown, and the
\* totals grow by the deltas of the other keys only.
FalseStartsExcluded ==
    /\ \A k \in Keys :
        FalseStart(PrevRows, CurrRows, k) =>
            AddedToModel(k) = Nothing /\ AddedToEndpoint(k) = Nothing
    /\ (\E k \in Keys : FalseStart(PrevRows, CurrRows, k)) =>
        AddedToTotals = DeltaSum({k \in Keys : ~FalseStart(PrevRows, CurrRows, k)})

\* C2: a tick whose snapshot's counters dropped below the previous snapshot's,
\* every key of its document restarted, increases the day's total_requests and
\* total_tokens by exactly that snapshot's own cumulative counters.
C2_RestartSafety ==
    [][(/\ TickStep
        /\ usage_snapshots # << >>
        /\ CurrSnapshot.total_requests < PrevSnapshot.total_requests
        /\ CurrSnapshot.total_tokens < PrevSnapshot.total_tokens
        /\ \A k \in Keys : CurrSnapshot.raw_data[k] > 0 =>
                CurrSnapshot.raw_data[k] < PrevSnapshot.raw_data[k])
       => /\ AddedToTotals.requests = CurrSnapshot.total_requests
          /\ AddedToTotals.tokens = CurrSnapshot.total_tokens]_vars

\* C9 as stated: in any tick, a key whose cost delta exceeds $10 and is within
\* $0.10 of its current cumulative cost adds nothing to the day's breakdown
\* or totals.
C9_FalseStartExcludedInAnyTick == [][TickStep => FalseStartsExcluded]_vars

\* C9: in any tick that finds a previous snapshot, a key whose cost delta
\* exceeds $10 and is within $0.10 of its current cumulative cost adds nothing
\* to the day's breakdown or totals.
C9_FalseStartExcluded ==
    [][(TickStep /\ usage_snapshots # << >>) => FalseStartsExcluded]_vars

\* C9's case: the second tick filtered gpt-4 and added the other key's delta.
C9_Witness ==
    /\ Len(usage_snapshots) = 2
    /\ FalseStart(model_usage[1], model_usage[2], <<"gpt-4", "api-key-1">>)
    /\ usage_snapshots[2].raw_data[<<"gemini-2.5-flash", "api-key-1">>]
         > usage_snapshots[1].raw_data[<<"gemini-2.5-flash", "api-key-1">>]
    /\ "gpt-4" \notin DOMAIN daily_stats[0].breakdown.models

\* Key k was filtered as a false start in a tick before this one.
FilteredBefore(k) ==
    \E j \in 2..Len(model_usage) : FalseStart(model_usage[j - 1], model_usage[j], k)
\* No key's counters are lower in the tick's document than in the previous one.
NonDecreasing ==
    \A k \in Keys : CurrSnapshot.raw_data[k] >= PrevSnapshot.raw_data[k]
\* The tick added for key k the difference between its current and previous rows.
AddsDifference(k) ==
    LET curr == RowGet(CurrRows, k)
        prev == RowGet(PrevRows, k)
        diff == [requests |-> curr.request_count - prev.request_count,
                 tokens   |-> curr.total_tokens - prev.total_tokens,
                 cost     |-> curr.estimated_cost_usd - prev.estimated_cost_usd]
    IN  AddedToModel(k) = diff /\ AddedToEndpoint(k) = diff

DocModel(doc, m) ==
    LET ks == {k \in DocKeys(doc) : k[1] = m}
    IN  [requests |-> SumFn([k \in ks |-> LevelUsage(doc[k]).total_requests]),
         tokens |-> SumFn([k \in ks |-> LevelUsage(doc[k]).total_tokens]),
         cost |-> SumFn([k \in ks |->
                    calculate_cost(LevelUsage(doc[k]).input_tokens,
                                   LevelUsage(doc[k]).output_tokens,
                                   find_pricing_for_model(m))]),
         input_tokens |-> SumFn([k \in ks |-> LevelUsage(doc[k]).input_tokens]),
         output_tokens |-> SumFn([k \in ks |-> LevelUsage(doc[k]).output_tokens])]

\* C11: after the first tick on a store without snapshots and DailyStat, the
\* day's total_requests, total_tokens, success_count and failure_count are the
\* document's, and breakdown.models holds exactly the document's models with
\* their cumulative requests, tokens and cost.
C11_FreshStart ==
    (Len(usage_snapshots) = 1 /\ AllIdle /\ daily_stats # << >>)
    => \A d \in DOMAIN daily_stats :
        LET doc == usage_snapshots[1].raw_data
            row == daily_stats[d]
        IN  /\ row.total_requests = Usage(doc).total_requests
            /\ row.total_tokens = Usage(doc).total_tokens
            /\ row.success_count = Usage(doc).success_count
            /\ row.failure_count = Usage(doc).failure_count
            /\ DOMAIN row.breakdown.models = {k[1] : k \in DocKeys(doc)}
            /\ \A m \in DOMAIN row.breakdown.models :
                row.breakdown.models[m] = DocModel(doc, m)

\* C11's case: the first tick stored a document of two models, gpt-4 above $10.
C11_Witness ==
    /\ Len(usage_snapshots) = 1
    /\ AllIdle
    /\ \E d \in DOMAIN daily_stats :
        /\ DOMAIN daily_stats[d].breakdown.models = Models
        /\ daily_stats[d].breakdown.models["gpt-4"].cost > FalseStartMinCost

\* --------------------------------------------------- two snapshots, one day
\* The sum over all keys of current row minus previous row.
RowDifferences ==
    [requests |-> SumFn([k \in Keys |-> RowGet(CurrRows, k).request_count
                                         - RowGet(PrevRows, k).request_count]),
     tokens   |-> SumFn([k \in Keys |-> RowGet(CurrRows, k).total_tokens
                                         - RowGet(PrevRows, k).total_tokens]),
     cost     |-> SumFn([k \in Keys |-> RowGet(CurrRows, k).estimated_cost_usd
                                         - RowGet(PrevRows, k).estimated_cost_usd])]

\* C12: a tick whose snapshot follows another of the same day, with no key's
\* counters lower and no false start, raises the day's total_requests,
\* total_tokens and cost by the key-wise differences of the two snapshots.
C12_TwoSnapshotDelta ==
    [][(/\ TickStep
        /\ usage_snapshots # << >>
        /\ NonDecreasing
        /\ \A k \in Keys : ~FalseStart(PrevRows, CurrRows, k))
       => AddedToTotals = RowDifferences]_vars

\* C12's case: both keys grew from the first snapshot to the second.
C12_Witness ==
    /\ Len(usage_snapshots) = 2
    /\ \A k \in Keys : /\ usage_snapshots[1].raw_data[k] > 0
                       /\ usage_snapshots[2].raw_data[k] > usage_snapshots[1].raw_data[k]
    /\ daily_stats[0].total_requests = usage_snapshots[2].total_requests
    /\ daily_stats[0].total_tokens = usage_snapshots[2].total_tokens

\* ======================================================== rate_limiter.py
(***************************************************************************)
(* Times are seconds since a Monday 00:00 of APP_TIMEZONE, a fixed offset. *)
(* A datetime is aware (it carries an offset, and denotes the instant t)   *)
(* or naive (it carries none).                                             *)
(***************************************************************************)
\* timedelta(minutes=1), timedelta(days=1), timedelta(weeks=1), in seconds.
MINUTE == 60
DAY == 86400
WEEK == 604800
\* GAP_THRESHOLD, in seconds.
GAP_THRESHOLD == 1800

\* A slip in line 80: the time of day is kept.
start_of_today_untruncated(now) == now

\* now.replace(hour=0, minute=0, second=0, microsecond=0)
start_of_today(now) == now - (now % DAY)

\* A slip in line 81: isoweekday(), where Monday is 1.
weekday_iso(t) == ((t \div DAY) % 7) + 1

\* datetime.weekday(): Monday is 0.
weekday(t) == (t \div DAY) % 7

\* A slip in lines 75-77: the daily window is the last 24 hours.
natural_window_daily_rolls(reset_strategy, window_minutes, now) ==
    IF reset_strategy = "daily"
    THEN Some([window_start |-> now - DAY, next_reset |-> now])
    ELSE IF reset_strategy = "weekly"
    THEN LET monday == start_of_today(now) - weekday(start_of_today(now)) * DAY
         IN  Some([window_start |-> monday, next_reset |-> monday + WEEK])
    ELSE IF reset_strategy = "rolling"
    THEN Some([window_start |-> now - window_minutes * MINUTE,
               next_reset |-> now + MINUTE])
    ELSE NoneValue

\* Lines 74-89: calculated_window_start and next_reset, or None for a
\* strategy that is not supported.
natural_window(reset_strategy, window_minutes, now) ==
    IF reset_strategy = "daily"
    THEN Some([window_start |-> start_of_today(now),
               next_reset |-> start_of_today(now) + DAY])
    ELSE IF reset_strategy = "weekly"
    THEN LET monday == start_of_today(now) - weekday(start_of_today(now)) * DAY
         IN  Some([window_start |-> monday, next_reset |-> monday + WEEK])
    ELSE IF reset_strategy = "rolling"
    THEN Some([window_start |-> now - window_minutes * MINUTE,
               next_reset |-> now + MINUTE])
    ELSE NoneValue

\* A reset_anchor_timestamp string is [kind, t]: "text" is no ISO timestamp,
\* "naive" an ISO timestamp without offset, "aware" one with an offset or Z.
\* datetime.fromisoformat(reset_anchor_str.replace('Z', '+00:00')), line 97.
fromisoformat(str) ==
    [ok |-> str.kind # "text", aware |-> str.kind = "aware", t |-> str.t]

\* A slip in line 102: a parsed anchor is used without the comparison.
effective_window_start_any_anchor(calculated_window_start, reset_anchor_str) ==
    IF ~IsSome(reset_anchor_str)
    THEN [raised |-> FALSE, window_start |-> calculated_window_start]
    ELSE LET reset_anchor_dt == fromisoformat(Get(reset_anchor_str))
         IN  IF ~reset_anchor_dt.ok
             THEN [raised |-> FALSE, window_start |-> calculated_window_start]
             ELSE [raised |-> FALSE, window_start |-> reset_anchor_dt.t]

\* A slip in line 102: the comparison is turned around, so an anchor is used
\* once the natural window has passed it.
effective_window_start_expired_anchor(calculated_window_start, reset_anchor_str) ==
    IF ~IsSome(reset_anchor_str)
    THEN [raised |-> FALSE, window_start |-> calculated_window_start]
    ELSE LET reset_anchor_dt == fromisoformat(Get(reset_anchor_str))
         IN  IF ~reset_anchor_dt.ok
             THEN [raised |-> FALSE, window_start |-> calculated_window_start]
             ELSE IF ~reset_anchor_dt.aware
             THEN [raised |-> TRUE, window_start |-> calculated_window_start]
             ELSE IF reset_anchor_dt.t < calculated_window_start
             THEN [raised |-> FALSE, window_start |-> reset_anchor_dt.t]
             ELSE [raised |-> FALSE, window_start |-> calculated_window_start]

\* Lines 91-108: window_start, or the exception that leaves _process_config.
\* ValueError of fromisoformat is caught (line 107); comparing a naive anchor
\* with the aware calculated_window_start (line 102) raises TypeError, which
\* is not.
effective_window_start(calculated_window_start, reset_anchor_str) ==
    IF ~IsSome(reset_anchor_str)
    THEN [raised |-> FALSE, window_start |-> calculated_window_start]
    ELSE LET reset_anchor_dt == fromisoformat(Get(reset_anchor_str))
         IN  IF ~reset_anchor_dt.ok
             THEN [raised |-> FALSE, window_start |-> calculated_window_start]
             ELSE IF ~reset_anchor_dt.aware
             THEN [raised |-> TRUE, window_start |-> calculated_window_start]
             ELSE IF reset_anchor_dt.t > calculated_window_start
             THEN [raised |-> FALSE, window_start |-> reset_anchor_dt.t]
             ELSE [raised |-> FALSE, window_start |-> calculated_window_start]

\* ---------------------------------------------------------- _calculate_usage
\* The model names each modelled pattern matches: ilike '%pattern%'.
Patterns == {"gemini", "g"}
Matches(model_pattern, model_name) ==
    \/ model_pattern = "g"
    \/ model_pattern = "gemini" /\ model_name = "gemini-2.5-flash"

\* The created_at values of the rows that match the pattern.
matching_times(rows, model_pattern) ==
    {rows[i].created_at : i \in {j \in DOMAIN rows :
                                    Matches(model_pattern, rows[j].model_name)}}

SetMax(S) == CHOOSE x \in S : \A y \in S : y <= x
SetMin(S) == CHOOSE x \in S : \A y \in S : x <= y

ZeroUsage == [total_tokens |-> 0, request_count |-> 0]

\* Lines 240-254: the rows of one created_at, summed by model name.
_build_snapshot_map(rows, model_pattern, snapshot_time) ==
    LET recs == {i \in DOMAIN rows :
                    /\ Matches(model_pattern, rows[i].model_name)
                    /\ rows[i].created_at = snapshot_time}
        of(m) == {i \in recs : rows[i].model_name = m}
    IN  [m \in {rows[i].model_name : i \in recs} |->
            [total_tokens  |-> SumFn([i \in of(m) |-> rows[i].total_tokens]),
             request_count |-> SumFn([i \in of(m) |-> rows[i].request_count])]]

\* Python's round() of the rational n / d, d > 0: to the nearest integer, a
\* tie to the even one.
RoundHalfEven(n, d) ==
    LET q == n \div d
        r == n % d
    IN  IF 2 * r < d THEN q
        ELSE IF 2 * r > d THEN q + 1
        ELSE IF q % 2 = 0 THEN q ELSE q + 1

RECURSIVE GCD(_, _)
GCD(a, b) == IF b = 0 THEN a ELSE GCD(b, a % b)

\* Line 217: ratio = max(0.0, min(1.0, num / den)), kept as a fraction in
\* lowest terms.
clamp_ratio(num, den) ==
    IF num <= 0 THEN [num |-> 0, den |-> 1]
    ELSE IF num >= den THEN [num |-> 1, den |-> 1]
    ELSE [num |-> num \div GCD(num, den), den |-> den \div GCD(num, den)]

\* A slip in lines 271-272: the ratio is applied to the counter of the first
\* row of the window, not to its difference from the baseline.
_interpolate_snapshot_map_whole_end(baseline_map, first_inner_map, ratio) ==
    [m \in DOMAIN baseline_map \cup DOMAIN first_inner_map |->
        LET baseline_rec == At(baseline_map, m, ZeroUsage)
            inner_rec == At(first_inner_map, m, baseline_rec)
            interp(start, end) ==
                RoundHalfEven(start * ratio.den + ratio.num * end, ratio.den)
        IN  [total_tokens  |-> interp(baseline_rec.total_tokens, inner_rec.total_tokens),
             request_count |-> interp(baseline_rec.request_count,
                                      inner_rec.request_count)]]

\* Lines 256-277.
_interpolate_snapshot_map(baseline_map, first_inner_map, ratio) ==
    [m \in DOMAIN baseline_map \cup DOMAIN first_inner_map |->
        LET baseline_rec == At(baseline_map, m, ZeroUsage)
            inner_rec == At(first_inner_map, m, baseline_rec)
            interp(start, end) ==
                RoundHalfEven(start * ratio.den + ratio.num * (end - start), ratio.den)
        IN  [total_tokens  |-> interp(baseline_rec.total_tokens, inner_rec.total_tokens),
             request_count |-> interp(baseline_rec.request_count,
                                      inner_rec.request_count)]]

\* A slip in lines 298-314: a model without entry in baseline_map is left out.
delta_of_maps_common_models(current_map, baseline_map) ==
    LET common == DOMAIN current_map \cap DOMAIN baseline_map
    IN  [total_tokens |->
            SumFn([m \in common |->
                     Max(0, current_map[m].total_tokens - baseline_map[m].total_tokens)]),
         request_count |->
            SumFn([m \in common |->
                     Max(0, current_map[m].request_count - baseline_map[m].request_count)])]

\* Lines 298-314: the deltas of the models of current_map, none below zero.
delta_of_maps(current_map, baseline_map) ==
    [total_tokens |->
        SumFn([m \in DOMAIN current_map |->
                 Max(0, current_map[m].total_tokens
                        - At(baseline_map, m, ZeroUsage).total_tokens)]),
     request_count |->
        SumFn([m \in DOMAIN current_map |->
                 Max(0, current_map[m].request_count
                        - At(baseline_map, m, ZeroUsage).request_count)])]

\* Lines 279-314; baseline_override is None or a map.
_calculate_delta_from_snapshots(rows, latest_time, baseline_time, model_pattern, baseline_override) ==
    delta_of_maps(_build_snapshot_map(rows, model_pattern, latest_time),
                  IF IsSome(baseline_override) THEN Get(baseline_override)
                  ELSE _build_snapshot_map(rows, model_pattern, baseline_time))

\* A slip in line 206: a gap of exactly the threshold counts as a data gap.
gap_detected_inclusive(gap_seconds) == gap_seconds >= GAP_THRESHOLD

\* Line 206.
gap_detected(gap_seconds) == gap_seconds > GAP_THRESHOLD

\* A slip in line 215: the time from the window start to the first inner row.
ratio_seconds_to_inner(since, baseline_dt, first_inner_dt) == first_inner_dt - since

\* Line 215: the time from the baseline row to the window start.
ratio_seconds(since, baseline_dt, first_inner_dt) == since - baseline_dt

\* Lines 215-221: the interpolated baseline of a data gap.
interpolated_map(rows, model_pattern, since, baseline_time, first_inner_snapshot_time) ==
    LET gap_seconds == first_inner_snapshot_time - baseline_time
        window_span == IF gap_seconds > 0 THEN gap_seconds ELSE 1
        ratio == clamp_ratio(ratio_seconds(since, baseline_time,
                                           first_inner_snapshot_time), window_span)
    IN  _interpolate_snapshot_map(
            _build_snapshot_map(rows, model_pattern, baseline_time),
            _build_snapshot_map(rows, model_pattern, first_inner_snapshot_time),
            ratio)

\* A slip in lines 156-176: the base is the snapshot before the latest one,
\* not the one at the start of the window.
_calculate_usage_since_previous(rows, model_pattern, since) ==
    LET times == matching_times(rows, model_pattern)
        earlier == times \ {SetMax(times)}
    IN  IF times = {} THEN ZeroUsage
        ELSE IF SetMax(times) < since THEN ZeroUsage
        ELSE IF earlier = {} THEN ZeroUsage
        ELSE _calculate_delta_from_snapshots(rows, SetMax(times), SetMax(earlier),
                                             model_pattern, NoneValue)

\* A slip in lines 152-154: when the latest row is older than the window, the
\* usage since the first row is returned.
_calculate_usage_counts_old(rows, model_pattern, since) ==
    LET times == matching_times(rows, model_pattern)
        inner == {t \in times : t >= since}
        before == {t \in times : t < since}
    IN  IF times = {} THEN ZeroUsage
        ELSE IF SetMax(times) < since
        THEN _calculate_delta_from_snapshots(rows, SetMax(times), SetMin(times),
                                             model_pattern, NoneValue)
        ELSE IF before = {}
        THEN _calculate_delta_from_snapshots(rows, SetMax(times), SetMin(inner),
                                             model_pattern, NoneValue)
        ELSE IF gap_detected(SetMin(inner) - SetMax(before))
        THEN _calculate_delta_from_snapshots(
                 rows, SetMax(times), SetMax(before), model_pattern,
                 Some(interpolated_map(rows, model_pattern, since,
                                       SetMax(before), SetMin(inner))))
        ELSE _calculate_delta_from_snapshots(rows, SetMax(times), SetMax(before),
                                             model_pattern, NoneValue)

\* Lines 127-238.
_calculate_usage(rows, model_pattern, since) ==
    LET times == matching_times(rows, model_pattern)
        inner == {t \in times : t >= since}
        before == {t \in times : t < since}
    IN  IF times = {} THEN ZeroUsage
        ELSE IF SetMax(times) < since THEN ZeroUsage
        ELSE IF before = {}
        THEN IF inner = {} THEN ZeroUsage
             ELSE _calculate_delta_from_snapshots(rows, SetMax(times), SetMin(inner),
                                                  model_pattern, NoneValue)
        ELSE IF inner # {}
        THEN IF gap_detected(SetMin(inner) - SetMax(before))
             THEN _calculate_delta_from_snapshots(
                      rows, SetMax(times), SetMax(before), model_pattern,
                      Some(interpolated_map(rows, model_pattern, since,
                                            SetMax(before), SetMin(inner))))
             ELSE _calculate_delta_from_snapshots(rows, SetMax(times), SetMax(before),
                                                  model_pattern, NoneValue)
        ELSE _calculate_delta_from_snapshots(rows, SetMax(times), SetMax(before),
                                             model_pattern, NoneValue)

\* ------------------------------------------------------------ _update_status
\* The percentages p for which the double (p / 100) * 100 is below p: the
\* quotient remaining / limit is rounded to the nearest double, and int()
\* truncates its product with 100.
TruncatedBelow == {29, 57, 58}

\* Lines 330 and 335: int((remaining / limit) * 100) in double arithmetic,
\* for 0 <= remaining <= limit; a limit of 0 stands for None as well.
int_percentage(remaining, limit) ==
    LET p == (remaining * 100) \div limit
    IN  IF (remaining * 100) % limit = 0 /\ p \in TruncatedBelow THEN p - 1 ELSE p

\* Lines 322-355: the row upserted; status_label is kept as its parts.
_update_status(config_id, used_tokens, used_requests, window_start, next_reset, token_limit, request_limit, now) ==
    LET by_tokens == token_limit > 0
        by_requests == ~by_tokens /\ request_limit > 0
        rem_tokens == IF by_tokens THEN Max(0, token_limit - used_tokens) ELSE 0
        rem_requests == IF by_requests THEN Max(0, request_limit - used_requests) ELSE 0
        percentage == IF by_tokens THEN int_percentage(rem_tokens, token_limit)
                      ELSE IF by_requests THEN int_percentage(rem_requests, request_limit)
                      ELSE 100
        label == IF by_tokens
                 THEN [kind |-> "Tokens", a |-> used_tokens, b |-> token_limit]
                 ELSE IF by_requests
                 THEN [kind |-> "Requests", a |-> used_requests, b |-> request_limit]
                 ELSE [kind |-> "Used", a |-> used_tokens, b |-> used_requests]
    IN  [config_id |-> config_id,
         last_updated |-> now,
         window_start |-> window_start,
         used_tokens |-> used_tokens,
         used_requests |-> used_requests,
         status_label |-> label,
         percentage |-> Max(0, Min(100, percentage)),
         remaining_tokens |-> rem_tokens,
         remaining_requests |-> rem_requests,
         next_reset |-> next_reset]

\* ----------------------------------------------------------- _process_config
\* Line 67: all([config_id, model_pattern, window_minutes, reset_strategy]).
complete(config) ==
    /\ config.id # 0
    /\ config.model_pattern # ""
    /\ config.window_minutes # 0
    /\ config.reset_strategy # ""

\* Lines 54-125: "skipped" (return without a write), "raised" (an exception
\* leaves the method) or "upserted" with the row.
_process_config(config, rows, now) ==
    LET natural == natural_window(config.reset_strategy, config.window_minutes, now)
        start == effective_window_start(Get(natural).window_start,
                                        config.reset_anchor_timestamp)
        usage == _calculate_usage(rows, config.model_pattern, start.window_start)
    IN  IF ~complete(config) \/ ~IsSome(natural)
        THEN [outcome |-> "skipped", data |-> NoneValue]
        ELSE IF start.raised
        THEN [outcome |-> "raised", data |-> NoneValue]
        ELSE [outcome |-> "upserted",
              data |-> Some(_update_status(config.id, usage.total_tokens,
                                           usage.request_count, start.window_start,
                                           Get(natural).next_reset, config.token_limit,
                                           config.request_limit, now))]

\* ---------------------------------------------------------------- sync_limits
\* Lines 26-31: the configs are fetched; with none, sync_limits returns.
SyncStart ==
    /\ sync.pc = "idle"
    /\ rate_limit_configs # << >>
    /\ sync' = [pc |-> "loop", configs |-> rate_limit_configs, i |-> 1]
    /\ UNCHANGED <<clock, usage_rows, rate_limit_configs, rate_limit_status, last_run>>
    /\ UNCHANGED <<collector, credentials, prices>>

\* A slip in lines 33-39: without the try of line 34 an exception of
\* _process_config ends the loop.
ProcessConfigAborts ==
    /\ sync.pc = "loop"
    /\ LET config == sync.configs[sync.i]
           result == _process_config(config, usage_rows, clock)
       IN  /\ rate_limit_status' =
                IF result.outcome = "upserted"
                THEN Upsert(rate_limit_status, config.id, Get(result.data))
                ELSE rate_limit_status
           /\ last_run' = Upsert(last_run, config.id,
                                 [now |-> clock, config |-> config, rows |-> usage_rows,
                                  outcome |-> result.outcome,
                                  repeats |-> IF /\ config.id \in DOMAIN last_run
                                                 /\ last_run[config.id].config = config
                                                 /\ last_run[config.id].rows = usage_rows
                                              THEN Some(last_run[config.id].now)
                                              ELSE NoneValue])
           /\ sync' = IF sync.i = Len(sync.configs) \/ result.outcome = "raised"
                      THEN IdleSync
                      ELSE [sync EXCEPT !.i = @ + 1]
    /\ UNCHANGED <<clock, usage_rows, rate_limit_configs>>
    /\ UNCHANGED <<collector, credentials, prices>>

\* Lines 33-39: one iteration of the loop; an exception of _process_config
\* is logged and the loop goes on.
ProcessConfig ==
    /\ sync.pc = "loop"
    /\ LET config == sync.configs[sync.i]
           result == _process_config(config, usage_rows, clock)
       IN  /\ rate_limit_status' =
                IF result.outcome = "upserted"
                THEN Upsert(rate_limit_status, config.id, Get(result.data))
                ELSE rate_limit_status
           /\ last_run' = Upsert(last_run, config.id,
                                 [now |-> clock, config |-> config, rows |-> usage_rows,
                                  outcome |-> result.outcome,
                                  repeats |-> IF /\ config.id \in DOMAIN last_run
                                                 /\ last_run[config.id].config = config
                                                 /\ last_run[config.id].rows = usage_rows
                                              THEN Some(last_run[config.id].now)
                                              ELSE NoneValue])
    /\ sync' = IF sync.i = Len(sync.configs) THEN IdleSync
               ELSE [sync EXCEPT !.i = @ + 1]
    /\ UNCHANGED <<clock, usage_rows, rate_limit_configs>>
    /\ UNCHANGED <<collector, credentials, prices>>

\* ------------------------------------------- the clock, the collector, the user
HOUR == 60 * MINUTE

\* The clock readings of SpecWindow: around two Monday midnights (7 and 14
\* days), with the Wednesday 10:00 between them.
Instants ==
    {5 * DAY + 23 * HOUR, 7 * DAY - 1, 7 * DAY, 9 * DAY + 10 * HOUR,
     14 * DAY, 14 * DAY + MINUTE}

\* Time passes: the clock reads the next instant.
Advance ==
    /\ \E t \in Instants : t > clock
    /\ clock' = SetMin({t \in Instants : t > clock})
    /\ UNCHANGED <<usage_rows, rate_limit_configs, rate_limit_status, sync, last_run>>
    /\ UNCHANGED <<collector, credentials, prices>>

\* Rows the collector may insert while the rate limiter is watched: the
\* cumulative counters of one model, 10 tokens a request.
MaxInserted == 2
InsertedTokens == {10, 50}

\* main.py line 262 as rate_limiter.py sees it: rows of one created_at appear.
InsertUsage ==
    /\ Len(usage_rows) < MaxInserted
    /\ \A i \in DOMAIN usage_rows : usage_rows[i].created_at < clock
    /\ \E tokens \in InsertedTokens :
        /\ \A i \in DOMAIN usage_rows : usage_rows[i].total_tokens < tokens
        /\ usage_rows' = Append(usage_rows,
                                [created_at |-> clock, model_name |-> "gemini-2.5-flash",
                                 total_tokens |-> tokens,
                                 request_count |-> tokens \div 10])
    /\ UNCHANGED <<clock, rate_limit_configs, rate_limit_status, sync, last_run>>
    /\ UNCHANGED <<collector, credentials, prices>>

\* The user resets a limit by hand: the config's anchor becomes the present,
\* written with its offset.
ManualReset ==
    /\ \E i \in DOMAIN rate_limit_configs :
        /\ rate_limit_configs[i].reset_anchor_timestamp # Some([kind |-> "aware", t |-> clock])
        /\ rate_limit_configs' =
             [rate_limit_configs EXCEPT
                ![i].reset_anchor_timestamp = Some([kind |-> "aware", t |-> clock])]
    /\ UNCHANGED <<clock, usage_rows, rate_limit_status, sync, last_run>>
    /\ UNCHANGED <<collector, credentials, prices>>

\* ------------------------------------------------------------- SpecWindow
\* The anchors a config starts with: none, text that is no timestamp, a
\* timestamp without offset, and timestamps with offset on the Sunday
\* before, at, and on the Tuesday after the Monday of day 7.
InitialAnchors ==
    {NoneValue,
     Some([kind |-> "text", t |-> 0]),
     Some([kind |-> "naive", t |-> 8 * DAY + 12 * HOUR]),
     Some([kind |-> "aware", t |-> 6 * DAY + 12 * HOUR]),
     Some([kind |-> "aware", t |-> 7 * DAY]),
     Some([kind |-> "aware", t |-> 8 * DAY + 12 * HOUR])}

\* (reset_strategy, window_minutes) of the configs of SpecWindow; "monthly"
\* is not supported, and a window_minutes of 0 makes a config incomplete.
WindowShapes ==
    {<<"daily", 1440>>, <<"weekly", 10080>>, <<"rolling", 60>>, <<"monthly", 43200>>,
     <<"weekly", 0>>}

WindowConfigs ==
    {[id |-> 1, model_pattern |-> "gemini", reset_strategy |-> sh[1],
      window_minutes |-> sh[2], token_limit |-> 100, request_limit |-> 0,
      reset_anchor_timestamp |-> a] : sh \in WindowShapes, a \in InitialAnchors}

InitWindow ==
    /\ InitCollector
    /\ InitCredentials
    /\ InitPrices
    /\ clock = SetMin(Instants)
    /\ usage_rows = << >>
    /\ rate_limit_configs \in {<<c>> : c \in WindowConfigs}
    /\ rate_limit_status = << >>
    /\ sync = IdleSync
    /\ last_run = << >>

NextWindow ==
    \/ Advance
    \/ InsertUsage
    \/ ManualReset
    \/ SyncStart
    \/ ProcessConfig

SpecWindow == InitWindow /\ [][NextWindow]_vars

\* ------------------------------------------------------ claims, SpecWindow
\* The runs of _process_config that wrote a status: the status of such a
\* config is the one its last run wrote.
Upserted == {id \in DOMAIN last_run : last_run[id].outcome = "upserted"}
HasAnchor(config) == IsSome(config.reset_anchor_timestamp)

\* Instants are counted from the midnight that begins a Monday, so the
\* midnights are the multiples of DAY and those of Mondays the multiples of
\* WEEK.
IsMidnight(t) == t % DAY = 0
IsMondayMidnight(t) == t % WEEK = 0

\* C13: natural window. Whatever the clock read when a config was processed,
\* a daily config's status has next_reset one day after the midnight that began
\* the day of that reading, a weekly config's 7 days after the midnight that
\* began the Monday of its week, a rolling config's one minute after the
\* reading; and a config without anchor has, as window_start, that midnight,
\* that Monday midnight, or the reading less window_minutes.
C13_NaturalWindow ==
    \A id \in Upserted :
        LET now == last_run[id].now
            config == last_run[id].config
            status == rate_limit_status[id]
            IsNaturalStart(t) ==
                CASE config.reset_strategy = "daily" ->
                        IsMidnight(t) /\ t <= now /\ now < t + DAY
                  [] config.reset_strategy = "weekly" ->
                        IsMondayMidnight(t) /\ t <= now /\ now < t + WEEK
                  [] config.reset_strategy = "rolling" ->
                        t = now - config.window_minutes * MINUTE
                  [] OTHER -> FALSE
        IN  /\ CASE config.reset_strategy = "daily" ->
                        IsNaturalStart(status.next_reset - DAY)
                 [] config.reset_strategy = "weekly" ->
                        IsNaturalStart(status.next_reset - WEEK)
                 [] config.reset_strategy = "rolling" ->
                        status.next_reset = now + MINUTE
                 [] OTHER -> FALSE
            /\ ~HasAnchor(config) => IsNaturalStart(status.window_start)

\* C13 happens: a weekly config without anchor was processed on a Wednesday
\* at 10:00 and its window starts with the Monday before.
C13_Witness ==
    \E id \in Upserted :
        /\ ~HasAnchor(last_run[id].config)
        /\ last_run[id].config.reset_strategy = "weekly"
        /\ last_run[id].now = 9 * DAY + 10 * HOUR
        /\ rate_limit_status[id].window_start = 7 * DAY

\* The Monday midnights up to the last clock reading.
MondayMidnights == {n * WEEK : n \in 0..(SetMax(Instants) \div WEEK)}

WeeklyWithoutAnchor(run) ==
    /\ run.outcome = "upserted"
    /\ run.config.reset_strategy = "weekly"
    /\ ~HasAnchor(run.config)

\* C14: weekly window without anchor. From one run of a weekly config without
\* anchor to its next, window_start grows by 7 days for every Monday midnight
\* the clock has passed in between: it stays as it is while the clock stays
\* within Monday 00:00 through Sunday, it grows by exactly 7 days over one
\* Monday midnight, and it never decreases.
C14_WeeklyWindowSteps ==
    [][\A id \in DOMAIN last_run \cap DOMAIN last_run' :
          (WeeklyWithoutAnchor(last_run[id]) /\ WeeklyWithoutAnchor(last_run'[id])) =>
             LET passed == {t \in MondayMidnights :
                               last_run[id].now < t /\ t <= last_run'[id].now}
             IN  rate_limit_status'[id].window_start =
                    rate_limit_status[id].window_start + Cardinality(passed) * WEEK]_vars

\* C14 happens: a weekly config without anchor is given a status in the first
\* minute of the Monday of day 14, with the window starting that Monday.
C14_Witness ==
    \E id \in DOMAIN last_run :
        /\ WeeklyWithoutAnchor(last_run[id])
        /\ last_run[id].now = 14 * DAY + MINUTE
        /\ rate_limit_status[id].window_start = 14 * DAY
        /\ rate_limit_status[id].last_updated = last_run[id].now

\* The natural window start of a processed config: line 92 before the anchor.
NaturalStartOf(run) ==
    Get(natural_window(run.config.reset_strategy, run.config.window_minutes,
                       run.now)).window_start

\* An anchor that reads as a point in time with its offset.
AnchorInstant(config) ==
    IF HasAnchor(config) /\ Get(config.reset_anchor_timestamp).kind = "aware"
    THEN Some(Get(config.reset_anchor_timestamp).t)
    ELSE NoneValue

Written(status) ==
    [window_start |-> status.window_start,
     next_reset |-> status.next_reset,
     used_tokens |-> status.used_tokens,
     used_requests |-> status.used_requests,
     remaining_tokens |-> status.remaining_tokens,
     remaining_requests |-> status.remaining_requests,
     status_label |-> status.status_label,
     percentage |-> status.percentage]

\* The step is a second run of _process_config for config id, with the rows
\* and the config the run before it saw, and both wrote a status.
SecondRun(id) ==
    /\ id \in DOMAIN last_run
    /\ last_run'[id] # last_run[id]
    /\ last_run[id].outcome = "upserted"
    /\ last_run'[id].outcome = "upserted"
    /\ IsSome(last_run'[id].repeats)

\* Both runs read the clock in the same natural window: on the same day for
\* a daily config, in the same Monday-to-Sunday week for a weekly one, at the
\* same instant for a rolling one.
SameNaturalWindow(id) ==
    LET strategy == last_run[id].config.reset_strategy
        before == last_run[id].now
        after == last_run'[id].now
    IN  CASE strategy = "daily" -> before \div DAY = after \div DAY
          [] strategy = "weekly" -> before \div WEEK = after \div WEEK
          [] OTHER -> before = after

\* C16 as claimed: a second run of sync_limits with no row inserted and no
\* config changed since the first writes, for every config, the status the
\* first run wrote (last_updated aside).
C16_Idempotent ==
    [][\A id \in DOMAIN last_run' :
          SecondRun(id) => Written(rate_limit_status'[id]) = Written(rate_limit_status[id])]_vars

\* C16, amended: a second run of sync_limits with no row inserted and no
\* config changed since the first writes, for every config, the status the
\* first run wrote (last_updated aside), provided both runs read the clock in
\* the same natural window of the config.
C16_IdempotentWithinWindow ==
    [][\A id \in DOMAIN last_run' :
          (SecondRun(id) /\ SameNaturalWindow(id)) =>
             Written(rate_limit_status'[id]) = Written(rate_limit_status[id])]_vars

\* C16 happens: a weekly config with usage in its window has been processed
\* on Monday 00:00 and again on the Wednesday after, with the same rows and
\* config.
C16_Witness ==
    \E id \in Upserted :
        /\ last_run[id].config.reset_strategy = "weekly"
        /\ last_run[id].repeats = Some(7 * DAY)
        /\ last_run[id].now = 9 * DAY + 10 * HOUR
        /\ Len(last_run[id].rows) = MaxInserted
        /\ rate_limit_status[id].used_tokens > 0

\* --------------------------------------------------------------- SpecUsage
\* sync_limits on Wednesday 10:00 for one weekly config, over the histories
\* of model_usage rows the collector may have left around Monday 00:00.
UsageNow == 9 * DAY + 10 * HOUR
WindowStart == 7 * DAY

\* created_at of the snapshots: Saturday 23:00, a quarter of an hour before
\* Monday, Monday 00:00, 00:15, 00:15:01 and 03:00, and Wednesday 00:00.
UsageTimes ==
    {WindowStart - 25 * HOUR, WindowStart - 15 * MINUTE, WindowStart,
     WindowStart + 15 * MINUTE, WindowStart + 15 * MINUTE + 1,
     WindowStart + 3 * HOUR, WindowStart + 2 * DAY}

\* Snapshots in a history.
MaxBatches == 3

\* The cumulative tokens of each model in one snapshot; 0: no row of the
\* model. A request is 1000 tokens.
BatchContents ==
    {c \in [Models -> {0, 1000, 2000, 5000, 6000}] :
        /\ c["gemini-2.5-flash"] # 2000
        /\ c["gpt-4"] \in {0, 2000}
        /\ \E m \in Models : c[m] # 0}

\* The rows of one snapshot.
BatchRows(t, c) ==
    LET row(m) == [created_at |-> t, model_name |-> m, total_tokens |-> c[m],
                   request_count |-> c[m] \div 1000]
    IN  (IF c["gemini-2.5-flash"] # 0 THEN <<row("gemini-2.5-flash")>> ELSE << >>)
        \o (IF c["gpt-4"] # 0 THEN <<row("gpt-4")>> ELSE << >>)

\* The rows of a history (created_at -> contents), oldest first.
RECURSIVE HistoryRows(_)
HistoryRows(h) ==
    IF DOMAIN h = {} THEN << >>
    ELSE LET t == SetMin(DOMAIN h)
         IN  BatchRows(t, h[t]) \o HistoryRows([u \in DOMAIN h \ {t} |-> h[u]])

UsageHistories ==
    UNION {[T -> BatchContents] :
             T \in {S \in SUBSET UsageTimes : Cardinality(S) <= MaxBatches}}

UsageConfigs ==
    {[id |-> 1, model_pattern |-> p, reset_strategy |-> "weekly",
      window_minutes |-> 10080, token_limit |-> 10000, request_limit |-> 0,
      reset_anchor_timestamp |-> NoneValue] : p \in Patterns}

InitUsage ==
    /\ InitCollector
    /\ InitCredentials
    /\ InitPrices
    /\ clock = UsageNow
    /\ usage_rows \in {HistoryRows(h) : h \in UsageHistories}
    /\ rate_limit_configs \in {<<c>> : c \in UsageConfigs}
    /\ rate_limit_status = << >>
    /\ sync = IdleSync
    /\ last_run = << >>

NextUsage ==
    \/ SyncStart
    \/ ProcessConfig

SpecUsage == InitUsage /\ [][NextUsage]_vars

\* ------------------------------------------------------- claims, SpecUsage
OnlyGemini(tokens) == [m \in Models |-> IF m = "gemini-2.5-flash" THEN tokens ELSE 0]

\* The rows of the example of C17: 1000 tokens on Saturday 23:00, 5000 on
\* Monday 03:00, 6000 on Wednesday 00:00.
ExampleRows ==
    HistoryRows((WindowStart - 25 * HOUR) :> OnlyGemini(1000)
                @@ (WindowStart + 3 * HOUR) :> OnlyGemini(5000)
                @@ (WindowStart + 2 * DAY) :> OnlyGemini(6000))

\* The example has been processed.
ExampleProcessed(id) ==
    /\ id \in Upserted
    /\ last_run[id].rows = ExampleRows
    /\ rate_limit_status[id].window_start = WindowStart

\* The ratio and the synthetic baseline _calculate_usage takes for the
\* example.
ExampleRatio ==
    clamp_ratio(ratio_seconds(WindowStart, WindowStart - 25 * HOUR, WindowStart + 3 * HOUR),
                28 * HOUR)
ExampleBaseline(pattern) ==
    interpolated_map(ExampleRows, pattern, WindowStart, WindowStart - 25 * HOUR,
                     WindowStart + 3 * HOUR)["gemini-2.5-flash"].total_tokens

\* C17 as claimed: with a baseline row of 1000 tokens on Sat 23:00, the first
\* row of the window of 5000 tokens on Mon 03:00, the window starting Mon
\* 00:00 and a latest row of 6000 tokens, the ratio is 3h/28h, the synthetic
\* baseline 1428 tokens and the usage written 4572 tokens.
C17_ExampleAsClaimed ==
    \A id \in DOMAIN last_run :
        ExampleProcessed(id) =>
            /\ ExampleRatio = [num |-> 3, den |-> 28]
            /\ ExampleBaseline(last_run[id].config.model_pattern) = 1428
            /\ rate_limit_status[id].used_tokens = 4572

\* C17, amended: with the same rows and window the ratio is 25h/28h (the time
\* from the baseline row to the window start over the gap), the synthetic
\* baseline 4571 tokens and the usage written 1429 tokens.
C17_Example ==
    \A id \in DOMAIN last_run :
        ExampleProcessed(id) =>
            /\ ExampleRatio = [num |-> 25, den |-> 28]
            /\ ExampleBaseline(last_run[id].config.model_pattern) = 4571
            /\ rate_limit_status[id].used_tokens = 1429

\* C17 happens: the example has been processed for the pattern "gemini".
C17_Witness ==
    \E id \in DOMAIN last_run :
        /\ ExampleProcessed(id)
        /\ last_run[id].config.model_pattern = "gemini"
        /\ last_run[id].now = UsageNow

\* The created_at values of the rows a run saw that match its pattern.
TimesOf(run) ==
    {run.rows[i].created_at :
        i \in {j \in DOMAIN run.rows :
                  Matches(run.config.model_pattern, run.rows[j].model_name)}}

\* The counter (field "total_tokens" or "request_count") of model m in the
\* rows of created_at t; 0 without such a row.
Counter(run, t, m, field) ==
    LET of == {i \in DOMAIN run.rows :
                  run.rows[i].created_at = t /\ run.rows[i].model_name = m}
    IN  SumFn([i \in of |-> run.rows[i][field]])

HasRow(run, t, m) ==
    \E i \in DOMAIN run.rows : run.rows[i].created_at = t /\ run.rows[i].model_name = m

\* The models of the pattern with a row of created_at t.
ModelsAt(run, t) ==
    {m \in Models : Matches(run.config.model_pattern, m) /\ HasRow(run, t, m)}

\* The integers nearest to the value at window start since of the line
\* through (baseline, from) and (first_inner, to): v with
\* |v - (from + (since - baseline) / (first_inner - baseline) * (to - from))| <= 1/2.
Interpolations(baseline, first_inner, since, from, to) ==
    LET gap == first_inner - baseline
        exact == from * gap + (since - baseline) * (to - from)
    IN  {v \in {exact \div gap, (exact \div gap) + 1} : 2 * Abs(v * gap - exact) <= gap}

\* The bases C18 allows for model m: the counter of the first row of the
\* window when no row precedes the window; the counter of the last row
\* before the window when the first row of the window follows it by 1800
\* seconds or less; else the interpolation between the two, a model without
\* row in the first row of the window keeping its baseline counter.
Bases(run, since, m, field) ==
    LET before == {t \in TimesOf(run) : t < since}
        first_inner == SetMin({t \in TimesOf(run) : t >= since})
        baseline == SetMax(before)
        from == Counter(run, baseline, m, field)
        to == IF HasRow(run, first_inner, m) THEN Counter(run, first_inner, m, field)
              ELSE from
    IN  IF before = {} THEN {Counter(run, first_inner, m, field)}
        ELSE IF first_inner - baseline > 1800
        THEN Interpolations(baseline, first_inner, since, from, to)
        ELSE {from}

\* The usages C18 allows: over the models of the latest row, the counter
\* less the base, or 0 where the base is higher.
Usages(run, since, field) ==
    LET latest == SetMax(TimesOf(run))
        M == ModelsAt(run, latest)
        admissible == {b \in [M -> UNION {Bases(run, since, m, field) : m \in M}] :
                          \A m \in M : b[m] \in Bases(run, since, m, field)}
    IN  {SumFn([m \in M |-> Max(0, Counter(run, latest, m, field) - b[m])]) :
            b \in admissible}

LatestInWindow(run, since) ==
    /\ TimesOf(run) # {}
    /\ SetMax(TimesOf(run)) >= since

\* C18: baseline choice. Whenever the latest matching row lies in the window,
\* used_tokens and used_requests are the latest counters less a base, summed
\* over the models of the latest row: the base is the first row of the window
\* when no matching row precedes the window, the last row before the window
\* when the first row of the window follows it by 1800 seconds or less, and
\* otherwise, model by model, the rounded linear interpolation between these
\* two rows at window_start.
C18_BaselineChoice ==
    \A id \in Upserted :
        LET run == last_run[id]
            since == rate_limit_status[id].window_start
        IN  LatestInWindow(run, since) =>
               /\ rate_limit_status[id].used_tokens \in Usages(run, since, "total_tokens")
               /\ rate_limit_status[id].used_requests \in Usages(run, since, "request_count")

\* C18 happens: a run whose last row before the window and first row of the
\* window are 1801 seconds apart, with usage counted after the interpolated
\* base.
C18_Witness ==
    \E id \in Upserted :
        LET run == last_run[id]
        IN  /\ LatestInWindow(run, WindowStart)
            /\ WindowStart - 15 * MINUTE \in TimesOf(run)
            /\ SetMin({t \in TimesOf(run) : t >= WindowStart}) = WindowStart + 15 * MINUTE + 1
            /\ rate_limit_status[id].used_tokens > 0

\* -------------------------------------------------------------- SpecStatus
\* sync_limits on Wednesday 10:00 for one weekly config, over its limits and
\* over the usage of its window: a row on Monday 00:00 and a row on Wednesday
\* 00:00 that holds used_tokens tokens and used_requests requests more.
MaxUsed == 120
UsedRequests == {0, 42, 71, 150}
TokenLimits == {0, 50, 100}
RequestLimits == {0, 100, 200}

StatusRows(used_tokens, used_requests) ==
    <<[created_at |-> WindowStart, model_name |-> "gemini-2.5-flash",
       total_tokens |-> 1000, request_count |-> 10],
      [created_at |-> WindowStart + 2 * DAY, model_name |-> "gemini-2.5-flash",
       total_tokens |-> 1000 + used_tokens, request_count |-> 10 + used_requests]>>

StatusConfigs ==
    {[id |-> 1, model_pattern |-> "gemini", reset_strategy |-> "weekly",
      window_minutes |-> 10080, token_limit |-> t, request_limit |-> r,
      reset_anchor_timestamp |-> NoneValue] : t \in TokenLimits, r \in RequestLimits}

InitStatus ==
    /\ InitCollector
    /\ InitCredentials
    /\ InitPrices
    /\ clock = UsageNow
    /\ usage_rows \in {StatusRows(t, r) : t \in 0..MaxUsed, r \in UsedRequests}
    /\ rate_limit_configs \in {<<c>> : c \in StatusConfigs}
    /\ rate_limit_status = << >>
    /\ sync = IdleSync
    /\ last_run = << >>

NextStatus ==
    \/ SyncStart
    \/ ProcessConfig

SpecStatus == InitStatus /\ [][NextStatus]_vars

\* ------------------------------------------------------ claims, SpecStatus
\* remaining / limit * 100, truncated.
Truncated(remaining, limit) == (remaining * 100) \div limit

\* C19: every status written has a percentage in 0..100; with token_limit > 0
\* it is remaining_tokens / token_limit * 100 truncated, where
\* remaining_tokens = max(0, token_limit - used_tokens), whatever the request
\* limit; with only request_limit > 0 the same holds of the requests; with
\* neither limit it is 100.
C19_Percentage ==
    \A id \in Upserted :
        LET config == last_run[id].config
            status == rate_limit_status[id]
        IN  /\ status.percentage \in 0..100
            /\ IF config.token_limit > 0
               THEN /\ status.remaining_tokens = Max(0, config.token_limit - status.used_tokens)
                    /\ status.percentage = Truncated(status.remaining_tokens, config.token_limit)
               ELSE IF config.request_limit > 0
               THEN /\ status.remaining_requests =
                          Max(0, config.request_limit - status.used_requests)
                    /\ status.percentage =
                          Truncated(status.remaining_requests, config.request_limit)
               ELSE status.percentage = 100

\* ------------------------------------------- claims, SpecWindow (continued)
\* A config that is valid but for its anchor: complete, with a supported
\* reset strategy.
OtherwiseValid(config) ==
    /\ complete(config)
    /\ config.reset_strategy \in {"daily", "weekly", "rolling"}

\* C20: whatever reset_anchor_timestamp holds (text that is no timestamp and
\* timestamps without UTC offset included), processing an otherwise valid
\* config writes its status, and an anchor that is no timestamp with offset
\* leaves the natural window start in place.
C20_BadAnchorFallsBack ==
    \A id \in DOMAIN last_run :
        LET run == last_run[id]
        IN  OtherwiseValid(run.config) =>
               /\ run.outcome = "upserted"
               /\ ~IsSome(AnchorInstant(run.config)) =>
                     rate_limit_status[id].window_start = NaturalStartOf(run)

\* ======================================================================
\* credential_stats_sync.py: CredentialStatsSync.
\* ======================================================================
\* A detail of the usage document is [api_key_name, model_name, auth_index,
\* source, failed]: the entry d of usage.apis[api_key_name].models[model_name]
\* .details, with d.get('auth_index', ''), d.get('source', '') and
\* d.get('failed', False).  Every detail carries the same tokens.
DetailTokens ==
    [input_tokens |-> 2, output_tokens |-> 3, reasoning_tokens |-> 1,
     cached_tokens |-> 0, total_tokens |-> 6]
TokenFields == DOMAIN DetailTokens

\* Lines 73-81: the info of an auth file.
AuthInfo(provider, email, name, label, account_type, auth_index) ==
    [provider |-> provider, email |-> email, name |-> name, label |-> label,
     status |-> "active", account_type |-> account_type, auth_index |-> auth_index]

\* Lines 82-85: the last auth file of each non-empty auth_index and name.
build_auth_index_map(auth_files) ==
    LET last(field, value) ==
            auth_files[SetMax({i \in DOMAIN auth_files : auth_files[i][field] = value})]
        values(field) == {auth_files[i][field] : i \in DOMAIN auth_files} \ {""}
    IN  [by_auth_index |-> [a \in values("auth_index") |-> last("auth_index", a)],
         by_name |-> [n \in values("name") |-> last("name", n)]]

\* Lines 104-123 on the source strings of the model: "gemini-bob_x.json" ends
\* with '.json' and splits at its first '-' into provider and email, '_' read
\* as '.'; "" meets none of the conditions.
inferred_provider(source) ==
    IF source = "gemini-bob_x.json" THEN "gemini" ELSE "unknown"
inferred_email(auth_index, source) ==
    IF source = "gemini-bob_x.json" THEN "bob.x"
    ELSE IF source # "" THEN source
    ELSE IF auth_index # "" THEN auth_index
    ELSE "unknown"

\* Lines 89-133.
resolve_credential(auth_index, source, by_auth_index, by_name) ==
    IF auth_index # "" /\ auth_index \in DOMAIN by_auth_index
    THEN by_auth_index[auth_index]
    ELSE IF source # "" /\ source \in DOMAIN by_name THEN by_name[source]
    ELSE [provider |-> inferred_provider(source),
          email |-> inferred_email(auth_index, source),
          name |-> source,
          label |-> inferred_email(auth_index, source),
          status |-> "active",
          account_type |-> "inferred",
          auth_index |-> auth_index]

\* Line 185: cred_key = auth_idx or source or 'unknown'.
cred_key(d) ==
    IF d.auth_index # "" THEN d.auth_index
    ELSE IF d.source # "" THEN d.source
    ELSE "unknown"

\* The elements of a set of integers, ascending.
RECURSIVE Ascending(_)
Ascending(S) ==
    IF S = {} THEN << >> ELSE <<SetMin(S)>> \o Ascending(S \ {SetMin(S)})

\* round(count / total * 100, 1), in tenths of a percent.
success_rate(success_count, total_requests) ==
    IF total_requests > 0 THEN RoundHalfEven(success_count * 1000, total_requests)
    ELSE 0

\* list.sort(key=total_requests, reverse=True): stable, so that entries of
\* equal total_requests keep their order.
sort_by_requests(stats) ==
    LET before(i, j) ==
            \/ stats[i].total_requests > stats[j].total_requests
            \/ stats[i].total_requests = stats[j].total_requests /\ i < j
        rank(i) == 1 + Cardinality({j \in DOMAIN stats : before(j, i)})
    IN  [k \in DOMAIN stats |-> stats[CHOOSE i \in DOMAIN stats : rank(i) = k]]

\* A slip in lines 203-206 and 230-233: a failed detail is counted as a
\* failure and as a success.
detail_counts_success_always(details, I) ==
    [requests |-> Cardinality(I),
     success |-> Cardinality(I),
     failure |-> Cardinality({i \in I : details[i].failed}),
     tokens |-> [f \in TokenFields |-> Cardinality(I) * DetailTokens[f]]]

\* The counters lines 202-223 and 226-240 keep for the details of indices I.
detail_counts(details, I) ==
    [requests |-> Cardinality(I),
     success |-> Cardinality({i \in I : ~details[i].failed}),
     failure |-> Cardinality({i \in I : details[i].failed}),
     tokens |-> [f \in TokenFields |-> Cardinality(I) * DetailTokens[f]]]

\* A slip in lines 189-192: the info of a key is resolved at every detail, so
\* that the last one stays.
info_detail_last(I) == SetMax(I)

\* Lines 189-192: of the details I of one key, the one the info is resolved
\* from: cred['info'] is None at the first only.
info_detail(I) == SetMin(I)

\* Lines 172-275: credential_stats.  cred_agg gets its keys in the order of
\* their first detail.
credential_stats(details, auth_files) ==
    LET maps == build_auth_index_map(auth_files)
        firsts == {i \in DOMAIN details :
                      \A j \in 1..(i - 1) : cred_key(details[j]) # cred_key(details[i])}
        order == Ascending(firsts)
        stat(i) ==
            LET I == {j \in DOMAIN details : cred_key(details[j]) = cred_key(details[i])}
                info == resolve_credential(details[info_detail(I)].auth_index,
                                           details[info_detail(I)].source,
                                           maps.by_auth_index, maps.by_name)
                c == detail_counts(details, I)
                of(m) == {j \in I : details[j].model_name = m}
            IN  [auth_index |-> info.auth_index,
                 source |-> info.name,
                 provider |-> info.provider,
                 email |-> info.email,
                 label |-> info.label,
                 status |-> info.status,
                 account_type |-> info.account_type,
                 total_requests |-> c.requests,
                 success_count |-> c.success,
                 failure_count |-> c.failure,
                 success_rate |-> success_rate(c.success, c.requests),
                 tokens |-> c.tokens,
                 models |-> [m \in {details[j].model_name : j \in I} |->
                                detail_counts(details, of(m))],
                 api_keys |-> {details[j].api_key_name : j \in I}]
    IN  sort_by_requests([k \in DOMAIN order |-> stat(order[k])])

\* Lines 172-299: api_key_stats, one entry for every key of usage.apis
\* (line 173), with or without details.
api_key_stats(apis, details) ==
    LET stat(a) ==
            LET I == {j \in DOMAIN details : details[j].api_key_name = a}
                c == detail_counts(details, I)
                of(m) == {j \in I : details[j].model_name = m}
            IN  [api_key_name |-> a,
                 total_requests |-> c.requests,
                 total_tokens |-> c.tokens.total_tokens,
                 success_count |-> c.success,
                 failure_count |-> c.failure,
                 success_rate |-> success_rate(c.success, c.requests),
                 input_tokens |-> c.tokens.input_tokens,
                 output_tokens |-> c.tokens.output_tokens,
                 models |-> [m \in {details[j].model_name : j \in I} |->
                                [requests |-> detail_counts(details, of(m)).requests,
                                 tokens |-> detail_counts(details, of(m)).tokens.total_tokens,
                                 success |-> detail_counts(details, of(m)).success,
                                 failure |-> detail_counts(details, of(m)).failure]],
                 credentials_used |-> {cred_key(details[j]) : j \in I}]
    IN  sort_by_requests([k \in DOMAIN apis |-> stat(apis[k])])

\* Lines 135-301.
aggregate_stats(usage_data, auth_files) ==
    [credential_stats |-> credential_stats(usage_data.details, auth_files),
     api_key_stats |-> api_key_stats(usage_data.apis, usage_data.details)]

\* A slip in lines 312-314: a sync that fetched no usage document empties the
\* summary table.
sync_stats_clears(usage_data, auth_files, upsert_ok, now, table) ==
    [table |-> << >>, stats |-> [credentials |-> 0, api_keys |-> 0, error |-> TRUE]]

\* Lines 303-345: the table after sync and the stats it returns.  usage_data
\* and auth_files are what the two fetches returned (None when a fetch
\* failed), upsert_ok whether the datastore accepted the upsert of line 327.
sync_stats(usage_data, auth_files, upsert_ok, now, table) ==
    IF ~IsSome(usage_data)
    THEN [table |-> table,
          stats |-> [credentials |-> 0, api_keys |-> 0, error |-> TRUE]]
    ELSE LET files == IF IsSome(auth_files) THEN Get(auth_files) ELSE << >>
             agg == aggregate_stats(Get(usage_data), files)
             row == [id |-> 1,
                     credentials |-> agg.credential_stats,
                     api_keys |-> agg.api_key_stats,
                     total_credentials |-> Len(agg.credential_stats),
                     total_api_keys |-> Len(agg.api_key_stats),
                     synced_at |-> now]
         IN  [table |-> IF upsert_ok THEN Upsert(table, 1, row) ELSE table,
              stats |-> [credentials |-> Len(agg.credential_stats),
                         api_keys |-> Len(agg.api_key_stats),
                         error |-> ~upsert_ok]]

\* Lines 31-45: the document of /v0/management/usage, or None.
fetch_usage == {NoneValue, Some([apis |-> proxy.apis, details |-> proxy.details])}
\* Lines 47-61: the files of /v0/management/auth-files, or None.
fetch_auth_files == {NoneValue, Some(proxy.auth_files)}

\* Syncs in one behaviour of SpecCredentials.
MaxSyncs == 2

\* Lines 113-127 and 348-351: one sync_credential_stats, the clock moving on
\* by one.
CredentialSync ==
    /\ clock < MaxSyncs
    /\ \E usage_data \in fetch_usage :
        \E auth_files \in (IF IsSome(usage_data) THEN fetch_auth_files ELSE {NoneValue}) :
            \E upsert_ok \in (IF IsSome(usage_data) THEN BOOLEAN ELSE {TRUE}) :
                LET done == sync_stats(usage_data, auth_files, upsert_ok, clock,
                                       credential_usage_summary)
                IN  /\ credential_usage_summary' = done.table
                    /\ last_sync' = Some([usage_data |-> usage_data,
                                          auth_files |-> auth_files,
                                          upsert_ok |-> upsert_ok,
                                          now |-> clock,
                                          stats |-> done.stats])
    /\ clock' = clock + 1
    /\ UNCHANGED <<proxy, usage_rows, rate_limit_configs, rate_limit_status, sync, last_run>>
    /\ UNCHANGED <<collector, prices>>

\* ---------------------------------------------------------- SpecCredentials
\* Details in a usage document.
MaxDetails == 2
ApiKeyNames == {"key-1", "key-2"}
AuthIndexes == {"", "a1", "a9"}
Sources == {"", "gemini-bob_x.json"}

CredDetails ==
    [api_key_name : ApiKeyNames, model_name : Models, auth_index : AuthIndexes,
     source : Sources, failed : BOOLEAN]

\* usage.apis in the order of the document; "key-2" may have no details.
ApiOrders == {<< >>, <<"key-1">>, <<"key-1", "key-2">>}

\* The details in the order lines 172-178 meet them: by api key, then by model.
in_document_order(apis, details) ==
    LET pos(a) == CHOOSE k \in DOMAIN apis : apis[k] = a
    IN  /\ \A i \in DOMAIN details : \E k \in DOMAIN apis : apis[k] = details[i].api_key_name
        /\ \A i, j \in DOMAIN details :
              i < j => pos(details[i].api_key_name) <= pos(details[j].api_key_name)
        /\ \A i, j, k \in DOMAIN details :
              (/\ i < j /\ j < k
               /\ details[i].api_key_name = details[k].api_key_name
               /\ details[i].model_name = details[k].model_name)
              => details[j].model_name = details[i].model_name

\* The auth files: Bob's, known by auth_index "a1"; a file of the same name
\* without auth_index; Dan's, whom no detail names.
Bob == AuthInfo("gemini", "bob.x@x.com", "gemini-bob_x.json", "Bob", "oauth", "a1")
Legacy == AuthInfo("gemini", "bob.x@x.com", "gemini-bob_x.json", "Bob (old)", "oauth", "")
Dan == AuthInfo("codex", "dan@x.com", "codex-dan.json", "Dan", "oauth", "a2")
Catalogs == {<< >>, <<Bob>>, <<Legacy, Dan>>}

Proxies ==
    {[apis |-> apis, details |-> details, auth_files |-> auth_files] :
        apis \in ApiOrders,
        details \in UNION {[1..n -> CredDetails] : n \in 0..MaxDetails},
        auth_files \in Catalogs}

InitCredentialSync ==
    /\ InitCollector
    /\ InitPrices
    /\ clock = 0
    /\ usage_rows = << >>
    /\ rate_limit_configs = << >>
    /\ rate_limit_status = << >>
    /\ sync = IdleSync
    /\ last_run = << >>
    /\ proxy \in {p \in Proxies : in_document_order(p.apis, p.details)}
    /\ credential_usage_summary = << >>
    /\ last_sync = << >>

NextCredentials == CredentialSync

SpecCredentials == InitCredentialSync /\ [][NextCredentials]_vars

\* ------------------------------------------------- claims, SpecCredentials
\* The last sync fetched a usage document and its upsert was accepted: the
\* summary row is the one it wrote.
Synced ==
    /\ IsSome(last_sync)
    /\ IsSome(Get(last_sync).usage_data)
    /\ Get(last_sync).upsert_ok

SyncedDetails == Get(Get(last_sync).usage_data).details
SyncedCatalog ==
    IF IsSome(Get(last_sync).auth_files) THEN Get(Get(last_sync).auth_files) ELSE << >>
Summary == credential_usage_summary[1]

\* Entry e of the summary carries the record of auth file f.
CarriesFile(e, f) ==
    /\ e.auth_index = f.auth_index
    /\ e.source = f.name
    /\ e.provider = f.provider
    /\ e.email = f.email
    /\ e.label = f.label
    /\ e.account_type = f.account_type

\* Entry e carries the record C21 gives detail d: the catalog entry of d's
\* non-empty auth_index; else the catalog entry named as d's non-empty
\* source; else a record inferred from the source.
CarriesRecordOf(e, d) ==
    LET by_index == {i \in DOMAIN SyncedCatalog :
                        d.auth_index # "" /\ SyncedCatalog[i].auth_index = d.auth_index}
        by_source == {i \in DOMAIN SyncedCatalog :
                        d.source # "" /\ SyncedCatalog[i].name = d.source}
    IN  IF by_index # {} THEN \E i \in by_index : CarriesFile(e, SyncedCatalog[i])
        ELSE IF by_source # {} THEN \E i \in by_source : CarriesFile(e, SyncedCatalog[i])
        ELSE e.account_type = "inferred" /\ e.source = d.source
                /\ e.auth_index = d.auth_index

\* The key C21 gives detail d.
KeyOf(d) ==
    CASE d.auth_index # "" -> d.auth_index
      [] d.auth_index = "" /\ d.source # "" -> d.source
      [] OTHER -> "unknown"

SameKey(i) == {j \in DOMAIN SyncedDetails : KeyOf(SyncedDetails[j]) = KeyOf(SyncedDetails[i])}

\* Detail i is aggregated under its key, in an entry that carries the record
\* of detail r.
AggregatedWithRecordOf(i, r) ==
    /\ \E k \in DOMAIN Summary.credentials :
          /\ CarriesRecordOf(Summary.credentials[k], SyncedDetails[r])
          /\ Summary.credentials[k].total_requests = Cardinality(SameKey(i))
    /\ \E k \in DOMAIN Summary.api_keys :
          /\ Summary.api_keys[k].api_key_name = SyncedDetails[i].api_key_name
          /\ KeyOf(SyncedDetails[i]) \in Summary.api_keys[k].credentials_used

\* C21 as claimed: every detail is aggregated under the key auth_index, else
\* source, else 'unknown', in an entry that carries the record resolved for
\* that detail: the catalog entry of its auth_index, else the catalog entry
\* named as its source, else a record inferred from its source.
C21_EveryDetailResolved ==
    Synced => \A i \in DOMAIN SyncedDetails : AggregatedWithRecordOf(i, i)

\* C21, amended: every detail is aggregated under the key auth_index, else
\* source, else 'unknown', in an entry that carries the record resolved for
\* the first detail of that key in the document: the catalog entry of that
\* detail's auth_index, else the catalog entry named as its source, else a
\* record inferred from its source.
C21_FirstDetailResolved ==
    Synced => \A i \in DOMAIN SyncedDetails : AggregatedWithRecordOf(i, SetMin(SameKey(i)))

\* C21 happens: two details of the auth_index "a9", which no auth file has,
\* the first naming the source of an auth file and the second no source, have
\* been aggregated.
C21_Witness ==
    /\ Synced
    /\ Len(SyncedDetails) = 2
    /\ SyncedDetails[1].auth_index = "a9" /\ SyncedDetails[1].source = "gemini-bob_x.json"
    /\ SyncedDetails[2].auth_index = "a9" /\ SyncedDetails[2].source = ""
    /\ SyncedCatalog = <<Legacy, Dan>>
    /\ Summary.credentials[1].total_requests = 2

\* What the sync of this step fetched.
FetchedUsage == Get(last_sync').usage_data
FetchedAuthFiles == Get(last_sync').auth_files

\* C22: a sync that cannot fetch the usage document reports an error and
\* leaves the stored summary as it was; a sync that fetches the usage document
\* but not the auth files aggregates with an empty catalog, every credential
\* inferred, and (the datastore accepting the upsert) leaves the row of id 1
\* as the only row of the summary, holding that aggregation.
C22_FetchFailures ==
    [][CredentialSync =>
        /\ ~IsSome(FetchedUsage) =>
              /\ Get(last_sync').stats.error
              /\ credential_usage_summary' = credential_usage_summary
        /\ (IsSome(FetchedUsage) /\ ~IsSome(FetchedAuthFiles) /\ Get(last_sync').upsert_ok) =>
              /\ ~Get(last_sync').stats.error
              /\ Len(credential_usage_summary') = 1
              /\ credential_usage_summary'[1].id = 1
              /\ credential_usage_summary'[1].synced_at = clock
              /\ credential_usage_summary'[1].credentials
                    = aggregate_stats(Get(FetchedUsage), << >>).credential_stats
              /\ credential_usage_summary'[1].api_keys
                    = aggregate_stats(Get(FetchedUsage), << >>).api_key_stats
              /\ \A k \in DOMAIN credential_usage_summary'[1].credentials :
                    credential_usage_summary'[1].credentials[k].account_type = "inferred"
    ]_vars

\* C22 happens: the first sync could not fetch the auth files and wrote a
\* detail of Bob's auth_index "a1" as an inferred credential; the second could
\* not fetch the usage document, reported an error and the row of the first
\* is still there.
C22_Witness ==
    /\ IsSome(last_sync)
    /\ ~IsSome(Get(last_sync).usage_data)
    /\ Get(last_sync).stats.error
    /\ Get(last_sync).now = 1
    /\ proxy.auth_files = <<Bob>>
    /\ Len(proxy.details) >= 1
    /\ proxy.details[1].auth_index = "a1"
    /\ Len(credential_usage_summary) = 1
    /\ credential_usage_summary[1].synced_at = 0
    /\ credential_usage_summary[1].credentials[1].account_type = "inferred"
    /\ credential_usage_summary[1].credentials[1].auth_index = "a1"

\* ======================================================================
\* main.py: the pricing table of a tick (lines 141-200).
\* ======================================================================
\* Model ids are spelled out, a sequence of characters, so that lower() and
\* the substring tests of line 197 are computed.  A pricing table is the
\* sequence of its entries in the order of the dict; prices are in thousandths
\* of a dollar per million tokens, as in calculate_cost.
Price(id, input, output) == [id |-> id, input |-> input, output |-> output]

\* Lines 51-85.
DEFAULT_PRICING_TABLE ==
    <<
       Price(<<"g", "p", "t", "-", "4", "o">>, 2500, 10000),
       Price(<<"g", "p", "t", "-", "4", "o", "-", "m", "i", "n", "i">>, 150, 600),
       Price(<<"g", "p", "t", "-", "4", "-", "t", "u", "r", "b", "o">>, 10000, 30000),
       Price(<<"g", "p", "t", "-", "4">>, 30000, 60000),
       Price(<<"g", "p", "t", "-", "3", ".", "5", "-", "t", "u", "r", "b", "o">>, 500, 1500),
       Price(<<"o", "1">>, 15000, 60000),
       Price(<<"o", "1", "-", "m", "i", "n", "i">>, 3000, 12000),
       Price(<<"o", "1", "-", "p", "r", "e", "v", "i", "e", "w">>, 15000, 60000),
       Price(<<"o", "3">>, 15000, 60000),
       Price(<<"o", "3", "-", "m", "i", "n", "i">>, 1100, 4400),
       Price(<<"c", "l", "a", "u", "d", "e", "-", "s", "o", "n", "n", "e", "t", "-", "4">>, 3000, 15000),
       Price(<<"c", "l", "a", "u", "d", "e", "-", "4", "-", "s", "o", "n", "n", "e", "t">>, 3000, 15000),
       Price(<<"c", "l", "a", "u", "d", "e", "-", "o", "p", "u", "s", "-", "4">>, 15000, 75000),
       Price(<<"c", "l", "a", "u", "d", "e", "-", "4", "-", "o", "p", "u", "s">>, 15000, 75000),
       Price(<<"c", "l", "a", "u", "d", "e", "-", "3", "-", "5", "-", "s", "o", "n", "n", "e", "t">>, 3000, 15000),
       Price(<<"c", "l", "a", "u", "d", "e", "-", "3", ".", "5", "-", "s", "o", "n", "n", "e", "t">>, 3000, 15000),
       Price(<<"c", "l", "a", "u", "d", "e", "-", "3", "-", "5", "-", "h", "a", "i", "k", "u">>, 800, 4000),
       Price(<<"c", "l", "a", "u", "d", "e", "-", "3", ".", "5", "-", "h", "a", "i", "k", "u">>, 800, 4000),
       Price(<<"c", "l", "a", "u", "d", "e", "-", "3", "-", "s", "o", "n", "n", "e", "t">>, 3000, 15000),
       Price(<<"c", "l", "a", "u", "d", "e", "-", "3", "-", "o", "p", "u", "s">>, 15000, 75000),
       Price(<<"c", "l", "a", "u", "d", "e", "-", "3", "-", "h", "a", "i", "k", "u">>, 250, 1250),
       Price(<<"c", "l", "a", "u", "d", "e", "-", "s", "o", "n", "n", "e", "t">>, 3000, 15000),
       Price(<<"c", "l", "a", "u", "d", "e", "-", "o", "p", "u", "s">>, 15000, 75000),
       Price(<<"c", "l", "a", "u", "d", "e", "-", "h", "a", "i", "k", "u">>, 800, 4000),
       Price(<<"g", "e", "m", "i", "n", "i", "-", "2", ".", "5", "-", "p", "r", "o">>, 1250, 10000),
       Price(<<"g", "e", "m", "i", "n", "i", "-", "2", ".", "5", "-", "f", "l", "a", "s", "h">>, 75, 300),
       Price(<<"g", "e", "m", "i", "n", "i", "-", "2", ".", "5", "-", "f", "l", "a", "s", "h", "-", "p", "r", "e", "v", "i", "e", "w">>, 75, 300),
       Price(<<"g", "e", "m", "i", "n", "i", "-", "2", ".", "0", "-", "f", "l", "a", "s", "h">>, 100, 400),
       Price(<<"g", "e", "m", "i", "n", "i", "-", "2", ".", "0", "-", "f", "l", "a", "s", "h", "-", "l", "i", "t", "e">>, 75, 300),
       Price(<<"g", "e", "m", "i", "n", "i", "-", "2", ".", "0", "-", "f", "l", "a", "s", "h", "-", "e", "x", "p">>, 100, 400),
       Price(<<"g", "e", "m", "i", "n", "i", "-", "1", ".", "5", "-", "p", "r", "o">>, 1250, 5000),
       Price(<<"g", "e", "m", "i", "n", "i", "-", "1", ".", "5", "-", "f", "l", "a", "s", "h">>, 75, 300),
       Price(<<"_", "d", "e", "f", "a", "u", "l", "t">>, 150, 600)
    >>

\* An entry of the remote table carries the vendor too (line 154).
RemotePrice(id, input, output, vendor) ==
    [id |-> id, input |-> input, output |-> output, vendor |-> vendor]

\* str.lower() on the letters of the model.
lower(s) ==
    [i \in DOMAIN s |->
        CASE s[i] = "G" -> "g" [] s[i] = "P" -> "p" [] s[i] = "T" -> "t"
          [] OTHER -> s[i]]

\* pattern in text.
IsSubstring(pattern, text) ==
    /\ Len(pattern) <= Len(text)
    /\ \E i \in 0..(Len(text) - Len(pattern)) :
          \A j \in 1..Len(pattern) : text[i + j] = pattern[j]

Ids(pricing) == {pricing[i].id : i \in DOMAIN pricing}
Entry(pricing, id) == pricing[CHOOSE i \in DOMAIN pricing : pricing[i].id = id]

\* {**DEFAULT_PRICING, **remote_pricing}: a key of both keeps its place and
\* takes the remote value, the other remote keys follow in their order.
overlay(base, remote) ==
    LET kept == [i \in DOMAIN base |->
                    IF base[i].id \in Ids(remote) THEN Entry(remote, base[i].id)
                    ELSE base[i]]
        added == SelectSeq(remote, LAMBDA e : e.id \notin Ids(base))
    IN  kept \o added

_default == <<"_", "d", "e", "f", "a", "u", "l", "t">>

\* Lines 192-200, on any table: the prices and whether a pattern matched.
find_pricing_for_model_in(model_name, pricing) ==
    LET model_lower == lower(model_name)
        matching == {i \in DOMAIN pricing :
                        /\ pricing[i].id # _default
                        /\ \/ IsSubstring(pricing[i].id, model_lower)
                           \/ IsSubstring(model_lower, pricing[i].id)}
    IN  IF model_lower \in Ids(pricing)
        THEN [prices |-> Entry(pricing, model_lower), matched |-> TRUE]
        ELSE IF matching # {}
        THEN [prices |-> pricing[SetMin(matching)], matched |-> TRUE]
        ELSE IF _default \in Ids(pricing)
        THEN [prices |-> Entry(pricing, _default), matched |-> FALSE]
        ELSE [prices |-> [input |-> 150, output |-> 600], matched |-> FALSE]

\* An item of the remote document: id, input and output may be missing or
\* null (line 156).
Item(id, input, output) ==
    [id |-> id, input |-> input, output |-> output, is_number |-> TRUE]
\* An item whose input is a text float() rejects (line 152).
ItemWithText(id, output) ==
    [id |-> id, input |-> Some(0), output |-> output, is_number |-> FALSE]

\* Lines 148-157: the table of a remote document, or None when float() raises.
\* The vendor is 'unknown' for every item of the model.
parse_prices(items) ==
    LET usable == SelectSeq(items, LAMBDA it :
                        /\ IsSome(it.id) /\ Get(it.id) # << >>
                        /\ IsSome(it.input) /\ IsSome(it.output))
    IN  IF \E i \in DOMAIN usable : ~usable[i].is_number
        THEN NoneValue
        ELSE Some([i \in DOMAIN usable |->
                    RemotePrice(lower(Get(usable[i].id)), Get(usable[i].input),
                                Get(usable[i].output), "unknown")])

\* Line 144: seconds of one hour.
CACHE_SECONDS == 3600

\* A slip in lines 163-165: a failed fetch falls back on the cache it has,
\* however old.
fetch_remote_pricing_stale(answer, now, cache, last_fetch) ==
    IF cache # << >> /\ now - last_fetch < CACHE_SECONDS
    THEN [pricing |-> cache, cache |-> cache, last_fetch |-> last_fetch, fetched |-> FALSE]
    ELSE LET parsed == IF IsSome(answer) THEN parse_prices(Get(answer)) ELSE NoneValue
         IN  IF IsSome(parsed) /\ Get(parsed) # << >>
             THEN [pricing |-> Get(parsed), cache |-> Get(parsed), last_fetch |-> now,
                   fetched |-> TRUE]
             ELSE [pricing |-> cache, cache |-> cache, last_fetch |-> last_fetch,
                   fetched |-> TRUE]

\* Lines 141-166.  answer is what the request of line 147 brings when it is
\* made: None for an exception of lines 147-149, else the items of the
\* document.  The result is the table returned, the two globals after the
\* call and whether the request was made.
fetch_remote_pricing(answer, now, cache, last_fetch) ==
    IF cache # << >> /\ now - last_fetch < CACHE_SECONDS
    THEN [pricing |-> cache, cache |-> cache, last_fetch |-> last_fetch, fetched |-> FALSE]
    ELSE LET parsed == IF IsSome(answer) THEN parse_prices(Get(answer)) ELSE NoneValue
         IN  IF IsSome(parsed) /\ Get(parsed) # << >>
             THEN [pricing |-> Get(parsed), cache |-> Get(parsed), last_fetch |-> now,
                   fetched |-> TRUE]
             ELSE [pricing |-> << >>, cache |-> cache, last_fetch |-> last_fetch,
                   fetched |-> TRUE]

\* Lines 185-190.
get_model_pricing(remote_pricing) ==
    IF remote_pricing # << >> THEN overlay(DEFAULT_PRICING_TABLE, remote_pricing)
    ELSE DEFAULT_PRICING_TABLE

\* time.time(): the clock counts the seconds since Monday 2023-10-16 00:00 UTC.
time_time == 1697414400 + clock

\* The remote documents of the model: one that reprices 'GPT-4' and adds
\* 'mystery'; one that adds 'gpt-4-0613' and has an item without id and one
\* without output; one whose only item has no input; an empty one; one whose
\* input float() rejects.
gpt_4 == <<"g", "p", "t", "-", "4">>
GPT_4 == <<"G", "P", "T", "-", "4">>
gpt_4_0613 == <<"g", "p", "t", "-", "4", "-", "0", "6", "1", "3">>
gemini == <<"g", "e", "m", "i", "n", "i">>
mystery == <<"m", "y", "s", "t", "e", "r", "y">>
RemoteDocuments ==
    { <<Item(Some(GPT_4), Some(20000), Some(40000)), Item(Some(mystery), Some(1000), Some(2000))>>,
      <<Item(NoneValue, Some(1), Some(1)), Item(Some(gpt_4_0613), Some(25000), Some(50000)),
        Item(Some(gemini), Some(5), NoneValue)>>,
      <<Item(Some(mystery), NoneValue, Some(2000))>>,
      << >>,
      <<ItemWithText(Some(mystery), Some(2000))>> }
RemoteAnswers == {NoneValue} \cup {Some(d) : d \in RemoteDocuments}

\* The names a tick asks the price of (line 427): a key of the table, one in
\* capitals, one that contains a key, one contained in keys, one that
\* matches nothing, the empty name.
PricedNames == {gpt_4, GPT_4, gpt_4_0613, gemini, mystery, << >>}

\* The latest fetch that brought a non-empty table, as the history keeps it.
last_success == IF IsSome(last_pricing) THEN Get(last_pricing).success ELSE NoneValue

\* Line 211 of a tick: pricing = get_model_pricing(); the request of line 147
\* has any answer.  The history keeps when the call was made, whether it made
\* the request, the answer, the table the tick goes on with, and the latest
\* fetch that brought a non-empty table.
GetModelPricing ==
    /\ \E answer \in RemoteAnswers :
         LET got == fetch_remote_pricing(answer, time_time, remote_pricing_cache,
                                         remote_pricing_last_fetch)
         IN  /\ got.fetched \/ answer = NoneValue
             /\ remote_pricing_cache' = got.cache
             /\ remote_pricing_last_fetch' = got.last_fetch
             /\ last_pricing' =
                  Some([at |-> time_time,
                        fetched |-> got.fetched,
                        answer |-> IF got.fetched THEN answer ELSE NoneValue,
                        pricing |-> get_model_pricing(got.pricing),
                        success |-> IF got.fetched /\ got.pricing # << >>
                                    THEN Some([at |-> time_time, pricing |-> got.pricing])
                                    ELSE last_success])
    /\ UNCHANGED <<clock, usage_rows, rate_limit_configs, rate_limit_status, sync, last_run>>
    /\ UNCHANGED <<collector, credentials>>

\* The instants of the calls: half an hour, one second less than an hour, an
\* hour, and so on after the first.
PricingInstants == {0, 1800, 3599, 3600, 5400, 7199, 7200}

\* Time passes between two ticks.
PricingPause ==
    /\ \E t \in PricingInstants :
          /\ t > clock
          /\ clock' = t
    /\ UNCHANGED <<usage_rows, rate_limit_configs, rate_limit_status, sync, last_run>>
    /\ UNCHANGED <<collector, credentials, prices>>

InitPricing ==
    /\ InitCollector
    /\ InitCredentials
    /\ InitPrices
    /\ clock = 0
    /\ usage_rows = << >>
    /\ rate_limit_configs = << >>
    /\ rate_limit_status = << >>
    /\ sync = IdleSync
    /\ last_run = << >>

NextPricing == GetModelPricing \/ PricingPause

SpecPricing == InitPricing /\ [][NextPricing]_vars

\* ----------------------------------------------------- claims, SpecPricing
\* The call of this step, and the latest non-empty fetch before it.
PricingCall == Get(last_pricing')
FetchFailed(call) ==
    \/ ~IsSome(call.answer)
    \/ ~IsSome(parse_prices(Get(call.answer)))
    \/ Get(parse_prices(Get(call.answer))) = << >>

\* Table is the built-in table overlaid by remote: every remote entry is in
\* it, every built-in entry of another id is in it, and nothing else.
IsOverlay(table, remote) ==
    /\ \A i \in DOMAIN remote : \E k \in DOMAIN table : table[k] = remote[i]
    /\ \A i \in DOMAIN DEFAULT_PRICING_TABLE :
          DEFAULT_PRICING_TABLE[i].id \notin Ids(remote)
             => \E k \in DOMAIN table : table[k] = DEFAULT_PRICING_TABLE[i]
    /\ Len(table) = Cardinality(Ids(remote) \cup Ids(DEFAULT_PRICING_TABLE))

\* C23: a call of get_model_pricing less than one hour after the latest
\* remote fetch that brought a non-empty table makes no remote request and
\* returns the built-in table overlaid by the table of that fetch; a call
\* whose remote fetch fails (or brings no usable price) returns exactly the
\* built-in table; and in the table of every call every model name resolves
\* to an input and an output price.
C23_PricingCache ==
    [][GetModelPricing =>
        /\ (IsSome(last_success) /\ PricingCall.at - Get(last_success).at < 3600) =>
              /\ ~PricingCall.fetched
              /\ IsOverlay(PricingCall.pricing, Get(last_success).pricing)
        /\ (PricingCall.fetched /\ FetchFailed(PricingCall)) =>
              PricingCall.pricing = DEFAULT_PRICING_TABLE
        /\ \A name \in PricedNames :
              LET found == find_pricing_for_model_in(name, PricingCall.pricing)
              IN  found.prices.input \in Nat /\ found.prices.output \in Nat
    ]_vars

\* C23 happens: a call 3599 seconds after a fetch that repriced 'gpt-4' made
\* no request and resolves 'gpt-4' to the remote price, 'gemini' to the first
\* built-in key that contains it.
C23_Witness ==
    /\ IsSome(last_pricing)
    /\ ~Get(last_pricing).fetched
    /\ IsSome(last_success)
    /\ Get(last_pricing).at - Get(last_success).at = 3599
    /\ find_pricing_for_model_in(gpt_4, Get(last_pricing).pricing).prices.input = 20000
    /\ find_pricing_for_model_in(gemini, Get(last_pricing).pricing).prices.input = 1250
    /\ ~find_pricing_for_model_in(mystery, DEFAULT_PRICING_TABLE).matched

\* ------------------------------------------------ claims, overlapping ticks
\* Thread t has read its previous snapshot (lines 276-283) and not yet
\* returned.
HasReadPrevSnap(t) ==
    tick[t].pc \in {"select_daily_stats", "select_prev_usage", "upsert_daily_stats"}

\* C24: the prev_snap a tick uses is the snapshot immediately before, by
\* collected_at, the one the tick inserted: none when the tick's snapshot is
\* the first, never the tick's own snapshot, never a later one, also when
\* another tick inserts a snapshot in between.
C24_PrevSnapPrecedesOwn ==
    \A t \in Threads :
        HasReadPrevSnap(t) =>
            IF tick[t].snapshot_id = 1 THEN ~IsSome(tick[t].prev_snap)
            ELSE /\ IsSome(tick[t].prev_snap)
                 /\ Get(tick[t].prev_snap).id = tick[t].snapshot_id - 1

\* The cumulative cost of the snapshot before snapshot id, 0 when there is none.
PrecedingCost(snapshots, id) ==
    IF id = 1 THEN 0 ELSE snapshots[id - 1].cumulative_cost_usd

\* Thread t completes its tick with this step.
Completes(t) == UpsertDailyStats(t)

\* C25: when a tick completes, the cumulative_cost_usd of the snapshot it
\* inserted is the cumulative_cost_usd of the snapshot before it (0 when it
\* is the first) plus the total cost of the tick's document, and
\* cumulative_cost_usd does not decrease along the snapshots in the order of
\* collected_at.
C25_CumulativeCost ==
    [][\A t \in Threads :
          Completes(t) =>
            /\ usage_snapshots'[tick[t].snapshot_id].cumulative_cost_usd
                 = PrecedingCost(usage_snapshots', tick[t].snapshot_id)
                   + total_cost(tick[t].doc)
            /\ \A i, j \in DOMAIN usage_snapshots' :
                  i < j => usage_snapshots'[i].cumulative_cost_usd
                             <= usage_snapshots'[j].cumulative_cost_usd
    ]_vars

\* No snapshot and no row set of a snapshot is removed.
NothingDeleted ==
    /\ Len(usage_snapshots') >= Len(usage_snapshots)
    /\ Len(model_usage') >= Len(model_usage)

\* The ModelUsageRows inserted for a snapshot stay as they are.
RowsUntouched ==
    \A i \in DOMAIN model_usage :
        model_usage[i] # << >> => model_usage'[i] = model_usage[i]

\* C26 as claimed: once inserted, no Snapshot and no ModelUsageRow is modified
\* or deleted by any operation of the same or of a later tick.
C26_WriteOnce ==
    [][/\ NothingDeleted
       /\ RowsUntouched
       /\ \A i \in DOMAIN usage_snapshots : usage_snapshots'[i] = usage_snapshots[i]
    ]_vars

\* This step is the update of line 266 by the tick that inserted snapshot i.
OwnCostUpdate(i) ==
    \E t \in Threads :
        /\ tick[t].snapshot_id = i
        /\ tick[t].pc = "update_snapshot"
        /\ tick'[t].pc = "select_prev_snap"
        /\ usage_snapshots'[i].cumulative_cost_usd = cumulative_cost(tick[t])

\* C26, amended: once inserted, no ModelUsageRow is modified or deleted and no
\* Snapshot is deleted; of a Snapshot only cumulative_cost_usd is modified,
\* and only by the tick that inserted it, in its update of line 266; no later
\* or other tick modifies it.
C26_WriteOnceButOwnCost ==
    [][/\ NothingDeleted
       /\ RowsUntouched
       /\ \A i \in DOMAIN usage_snapshots :
             /\ [usage_snapshots'[i] EXCEPT !.cumulative_cost_usd = 0]
                  = [usage_snapshots[i] EXCEPT !.cumulative_cost_usd = 0]
             /\ usage_snapshots'[i].cumulative_cost_usd
                  # usage_snapshots[i].cumulative_cost_usd => OwnCostUpdate(i)
    ]_vars

\* C26 happens: two snapshots and their rows are stored, one tick has just
\* replaced the placeholder of the first snapshot by a higher cost while the
\* other tick, which inserted the second, is yet to update it.
C26_Witness ==
    /\ Len(usage_snapshots) = 2
    /\ model_usage[1] # << >> /\ model_usage[2] # << >>
    /\ \E t, u \in Threads :
          /\ tick[t].pc = "select_prev_snap" /\ tick[t].snapshot_id = 1
          /\ usage_snapshots[1].cumulative_cost_usd > tick[t].last_cost_total
          /\ tick[u].pc = "update_snapshot" /\ tick[u].snapshot_id = 2

\* --------------------------------------------- claims, false starts, SpecSerial
\* The increment of a global counter from the previous snapshot to the
\* tick's, the tick's own counter after a restart (lines 287-304).
GlobalRestart ==
    \/ CurrSnapshot.total_requests < PrevSnapshot.total_requests
    \/ CurrSnapshot.total_tokens < PrevSnapshot.total_tokens
Increment(field) ==
    IF GlobalRestart THEN CurrSnapshot[field]
    ELSE CurrSnapshot[field] - PrevSnapshot[field]

\* The keys the tick filters as false starts, and the keys it adds.
FilteredKeys == {k \in Keys : FalseStart(PrevRows, CurrRows, k)}
SurvivingKeys ==
    {k \in Keys \ FilteredKeys : is_added(key_delta(PrevRows, CurrRows, k))}

\* count multiplied by the share of the tick's request increment that
\* survives in the breakdown, the share clamped to [0, 1], truncated.
Scaled(count) ==
    LET surviving == DeltaSum(SurvivingKeys).requests
        share == Max(0, Min(Increment("total_requests"), surviving))
    IN  TruncDiv(count * share, Increment("total_requests"))

\* C27: a tick that filters false starts amounting to more than 1% of its
\* request increment adds to the day's success_count and failure_count its
\* success and failure increments multiplied by the share of the requests
\* that survive in the breakdown, clamped to [0, 1] and truncated.
C27_ScaledByFilteredShare ==
    [][(/\ TickStep
        /\ usage_snapshots # << >>
        /\ Increment("total_requests") > 0
        /\ 100 * DeltaSum(FilteredKeys).requests > Increment("total_requests"))
       => /\ NewDaily.success_count - OldDaily.success_count
                = Scaled(Increment("success_count"))
          /\ NewDaily.failure_count - OldDaily.failure_count
                = Scaled(Increment("failure_count"))
    ]_vars

\* The counters of a DailyStat that C28 names.
DailyCounters ==
    {"total_requests", "total_tokens", "estimated_cost_usd", "success_count",
     "failure_count"}

\* C28: within one date, no step decreases the total_requests, total_tokens,
\* estimated_cost_usd, success_count or failure_count of the date's DailyStat.
C28_DailyStatMonotone ==
    [][\A d \in DOMAIN daily_stats :
          /\ d \in DOMAIN daily_stats'
          /\ \A f \in DailyCounters : daily_stats'[d][f] >= daily_stats[d][f]
    ]_vars

\* C29: whenever a tick excludes a key as a false start, adding nothing of it
\* to the day's breakdown, the key has no ModelUsageRow in the previous
\* snapshot.
C29_FalseStartOnlyAtFirstAppearance ==
    [][(TickStep /\ usage_snapshots # << >>)
       => \A k \in FilteredKeys :
             AddedToModel(k) = Nothing => k \notin DOMAIN PrevRows
    ]_vars

\* ------------------------------------------- claims, SpecUsage: stale usage
\* C30: whenever no row matches the pattern of a config, or the most recent
\* matching row was created before window_start, the usage written for the
\* config is 0 tokens and 0 requests, whatever the older rows record.
C30_StaleUsageIsZero ==
    \A id \in Upserted :
        LET run == last_run[id]
            since == rate_limit_status[id].window_start
        IN  (TimesOf(run) = {} \/ SetMax(TimesOf(run)) < since) =>
               /\ rate_limit_status[id].used_tokens = 0
               /\ rate_limit_status[id].used_requests = 0

\* C30 happens: the matching rows of a run, 1000 tokens on Saturday 23:00 and
\* 6000 a quarter of an hour before the window starts, are all older than
\* window_start, and the usage written is 0.
C30_Witness ==
    \E id \in Upserted :
        LET run == last_run[id]
        IN  /\ rate_limit_status[id].window_start = WindowStart
            /\ TimesOf(run) = {WindowStart - 25 * HOUR, WindowStart - 15 * MINUTE}
            /\ Counter(run, WindowStart - 25 * HOUR, "gemini-2.5-flash", "total_tokens") = 1000
            /\ Counter(run, WindowStart - 15 * MINUTE, "gemini-2.5-flash", "total_tokens") = 6000
            /\ rate_limit_status[id].used_tokens = 0
            /\ rate_limit_status[id].used_requests = 0
\* ------------------------------------------------------------------ C31
\* The created_at values of the rows the base of a run is made of: the first
\* row of the window when no row precedes the window, the last row before
\* the window, and with it the first row of the window when a data gap is
\* interpolated.
BaseTimes(run, since) ==
    LET before == {t \in TimesOf(run) : t < since}
        first_inner == SetMin({t \in TimesOf(run) : t >= since})
    IN  IF before = {} THEN {first_inner}
        ELSE IF first_inner - SetMax(before) > 1800 THEN {SetMax(before), first_inner}
        ELSE {SetMax(before)}

\* The models of the latest row without entry in the base.
AbsentFromBase(run, since) ==
    {m \in ModelsAt(run, SetMax(TimesOf(run))) :
        \A t \in BaseTimes(run, since) : ~HasRow(run, t, m)}

\* The models of the pattern with an entry in the base and no row in the
\* latest snapshot.
OnlyInBase(run, since) ==
    {m \in Models :
        /\ Matches(run.config.model_pattern, m)
        /\ \E t \in BaseTimes(run, since) : HasRow(run, t, m)
        /\ ~HasRow(run, SetMax(TimesOf(run)), m)}

\* The sums over the models of M of max(0, latest - base), for the bases
\* the models may have.
DeltasOver(run, since, M, field) ==
    LET latest == SetMax(TimesOf(run))
        admissible == {b \in [M -> UNION {Bases(run, since, m, field) : m \in M}] :
                          \A m \in M : b[m] \in Bases(run, since, m, field)}
    IN  {SumFn([m \in M |-> Max(0, Counter(run, latest, m, field) - b[m])]) :
            b \in admissible}

\* What C31 says of one counter of a run: it is not negative; it is the full
\* latest counters of the models absent from the base plus, for the other
\* models of the latest snapshot, max(0, latest - base); no other model
\* adds to it.
SumOverLatestModels(run, since, used, field) ==
    LET latest == SetMax(TimesOf(run))
        absent == AbsentFromBase(run, since)
        present == ModelsAt(run, latest) \ absent
        full == SumFn([m \in absent |-> Counter(run, latest, m, field)])
    IN  /\ used >= 0
        /\ (used - full) \in DeltasOver(run, since, present, field)
        /\ used <= SumFn([m \in ModelsAt(run, latest) |-> Counter(run, latest, m, field)])

\* C31: window usage is the sum, over exactly the models of the latest
\* matching snapshot, of max(0, latest - base), for tokens and for requests
\* separately: a model absent from the base counts with its full latest
\* value, a model only in the base adds nothing, and the result is never
\* negative.
C31_DeltaOverLatestModels ==
    \A id \in Upserted :
        LET run == last_run[id]
            since == rate_limit_status[id].window_start
        IN  LatestInWindow(run, since) =>
                /\ SumOverLatestModels(run, since, rate_limit_status[id].used_tokens,
                                       "total_tokens")
                /\ SumOverLatestModels(run, since, rate_limit_status[id].used_requests,
                                       "request_count")

\* C31 happens: the latest snapshot has a model the base lacks, which counts
\* in full, and the base has a model the latest snapshot lacks.
C31_Witness ==
    \E id \in Upserted :
        LET run == last_run[id]
            since == rate_limit_status[id].window_start
        IN  /\ LatestInWindow(run, since)
            /\ AbsentFromBase(run, since) = {"gpt-4"}
            /\ OnlyInBase(run, since) = {"gemini-2.5-flash"}
            /\ rate_limit_status[id].used_tokens = 2000
            /\ rate_limit_status[id].used_requests = 2

\* ------------------------------------------------------------------ C32
\* A status was written for a daily or weekly config at or after the instant
\* of its anchor, the moment of the reset.
AnchoredRun(run) ==
    /\ run.outcome = "upserted"
    /\ run.config.reset_strategy \in {"daily", "weekly"}
    /\ IsSome(AnchorInstant(run.config))
    /\ Get(AnchorInstant(run.config)) <= run.now

\* The length of the natural window of a daily or weekly config.
Period(config) == IF config.reset_strategy = "daily" THEN DAY ELSE WEEK

\* The first midnight (daily) or Monday midnight (weekly) after the anchor.
FirstBoundaryAfterAnchor(config) ==
    ((Get(AnchorInstant(config)) \div Period(config)) + 1) * Period(config)

\* window_start is the anchor before the first boundary after the anchor,
\* and from then on the midnight or Monday midnight last passed.
AnchorUntilBoundary(run, status) ==
    IF run.now < FirstBoundaryAfterAnchor(run.config)
    THEN status.window_start = Get(AnchorInstant(run.config))
    ELSE /\ status.window_start = (run.now \div Period(run.config)) * Period(run.config)
         /\ status.window_start # Get(AnchorInstant(run.config))

\* The run before this step's run of config id had the same anchor and
\* strategy, and its window no longer started with the anchor.
AnchorExpiredBefore(id) ==
    /\ id \in DOMAIN last_run
    /\ last_run'[id] # last_run[id]
    /\ AnchoredRun(last_run[id])
    /\ last_run[id].config.reset_strategy = last_run'[id].config.reset_strategy
    /\ AnchorInstant(last_run[id].config) = AnchorInstant(last_run'[id].config)
    /\ rate_limit_status[id].window_start # Get(AnchorInstant(last_run[id].config))

MaxConfigs == 3

\* The configs a table may hold at position id.
SyncConfigs(id) ==
    LET config(pattern, strategy, minutes, anchor) ==
            [id |-> id, model_pattern |-> pattern, reset_strategy |-> strategy,
             window_minutes |-> minutes, token_limit |-> 10000, request_limit |-> 0,
             reset_anchor_timestamp |-> anchor]
    IN  {config("gemini", "weekly", 10080, NoneValue),
         config("g", "daily", 1440, Some([kind |-> "aware", t |-> 8 * DAY + 12 * HOUR])),
         config("gemini", "weekly", 10080, Some([kind |-> "naive", t |-> 8 * DAY + 12 * HOUR])),
         config("gemini", "weekly", 0, NoneValue),
         config("", "daily", 1440, NoneValue),
         config("gemini", "monthly", 43200, NoneValue)}

\* The tables: the row of position id has primary key id.
SyncTables ==
    UNION {{s \in [1..n -> UNION {SyncConfigs(id) : id \in 1..n}] :
               \A id \in 1..n : s[id] \in SyncConfigs(id)} : n \in 1..MaxConfigs}

InitSync ==
    /\ InitCollector
    /\ InitCredentials
    /\ InitPrices
    /\ clock = 9 * DAY + 10 * HOUR
    /\ usage_rows \in {<< >>,
                       <<[created_at |-> 9 * DAY, model_name |-> "gemini-2.5-flash",
                          total_tokens |-> 6000, request_count |-> 6]>>}
    /\ rate_limit_configs \in SyncTables
    /\ rate_limit_status = << >>
    /\ sync = IdleSync
    /\ last_run = << >>

NextSync ==
    \/ SyncStart
    \/ ProcessConfig

SpecSync == InitSync /\ [][NextSync]_vars

\* ------------------------------------------------------------------ C33
\* Line 87: a strategy that is none of daily, weekly and rolling.
Unsupported(config) == config.reset_strategy \notin {"daily", "weekly", "rolling"}

\* _process_config reaches _update_status for the config: it is complete
\* (line 67), its strategy is supported, and its anchor, if any, does not
\* make line 102 raise.
Writable(config) ==
    /\ complete(config)
    /\ ~Unsupported(config)
    /\ HasAnchor(config) => Get(config.reset_anchor_timestamp).kind # "naive"

\* The config of position i of a pass has been processed at the present
\* reading of the clock.
ProcessedNow(config) ==
    /\ config.id \in DOMAIN last_run'
    /\ last_run'[config.id].config = config
    /\ last_run'[config.id].now = clock

\* The status of the config was written at the present reading of the clock.
UpsertedNow(config) ==
    /\ config.id \in DOMAIN rate_limit_status'
    /\ rate_limit_status'[config.id].config_id = config.id
    /\ rate_limit_status'[config.id].last_updated = clock

\* C33: in sync_limits every fetched config is processed exactly once: each
\* step of the loop processes the config of the next position and no other,
\* whatever became of the one before, and the pass ends after the last
\* position; an exception while processing one config keeps no other config
\* from being processed and its status from being upserted; an incomplete
\* config or one with an unsupported reset strategy causes no write to
\* rate_limit_status.
C33_EveryConfigProcessed ==
    [][sync.pc = "loop" =>
          LET config == sync.configs[sync.i]
          IN  /\ ProcessedNow(config)
              /\ \A id \in DOMAIN last_run' \ {config.id} :
                    id \in DOMAIN last_run /\ last_run'[id] = last_run[id]
              /\ \A id \in DOMAIN rate_limit_status' \ {config.id} :
                    /\ id \in DOMAIN rate_limit_status
                    /\ rate_limit_status'[id] = rate_limit_status[id]
              /\ sync' = IF sync.i = Len(sync.configs) THEN IdleSync
                         ELSE [sync EXCEPT !.i = @ + 1]
              /\ Writable(config) => UpsertedNow(config)
              /\ (~complete(config) \/ Unsupported(config)) =>
                    rate_limit_status' = rate_limit_status
              /\ sync'.pc = "idle" =>
                    \A j \in DOMAIN sync.configs :
                        /\ ProcessedNow(sync.configs[j])
                        /\ Writable(sync.configs[j]) => UpsertedNow(sync.configs[j])]_vars

\* C33 happens: a pass over three configs has ended; processing the first
\* raised, the second was skipped for its strategy, and the third has its
\* status.
C33_Witness ==
    /\ sync.pc = "idle"
    /\ Len(rate_limit_configs) = 3
    /\ DOMAIN last_run = {1, 2, 3}
    /\ last_run[1].outcome = "raised"
    /\ last_run[2].outcome = "skipped"
    /\ Unsupported(rate_limit_configs[2])
    /\ last_run[3].outcome = "upserted"
    /\ DOMAIN rate_limit_status = {3}
    /\ rate_limit_status[3].last_updated = clock

\* ------------------------------------------------------------------ C34
\* The last row before the window and the first row of the window of a run
\* whose window has rows on both sides of its start.
BaselineTime(run, since) == SetMax({t \in TimesOf(run) : t < since})
FirstInnerTime(run, since) == SetMin({t \in TimesOf(run) : t >= since})

\* The run interpolated a data gap: the latest row lies in the window, a row
\* precedes the window, and the first row of the window follows it by more
\* than 1800 seconds.
GapInterpolated(run, since) ==
    /\ LatestInWindow(run, since)
    /\ {t \in TimesOf(run) : t < since} # {}
    /\ FirstInnerTime(run, since) - BaselineTime(run, since) > 1800

\* The counters of every model of the pattern do not decrease from the
\* baseline row to the first row of the window to the latest row; a model
\* without row in a snapshot has the counter 0 there.
CountersNonDecreasing(run, since) ==
    \A m \in {n \in Models : Matches(run.config.model_pattern, n)} :
        \A field \in {"total_tokens", "request_count"} :
            /\ Counter(run, BaselineTime(run, since), m, field)
                  <= Counter(run, FirstInnerTime(run, since), m, field)
            /\ Counter(run, FirstInnerTime(run, since), m, field)
                  <= Counter(run, SetMax(TimesOf(run)), m, field)

\* The counters of the latest row less those of the rows of created_at t,
\* over the models of the pattern.
LatestLess(run, t, field) ==
    LET M == {n \in Models : Matches(run.config.model_pattern, n)}
    IN  SumFn([m \in M |-> Counter(run, SetMax(TimesOf(run)), m, field)
                           - Counter(run, t, m, field)])

\* C34: when a data gap is interpolated and the counters of every model are
\* non-decreasing from the baseline row to the first row of the window to
\* the latest row, the usage written is at least the latest counters less
\* those of the first row of the window and at most the latest counters less
\* those of the baseline row, for tokens and for requests.
C34_InterpolatedUsageBounds ==
    \A id \in Upserted :
        LET run == last_run[id]
            since == rate_limit_status[id].window_start
            used(field) == IF field = "total_tokens" THEN rate_limit_status[id].used_tokens
                           ELSE rate_limit_status[id].used_requests
        IN  (GapInterpolated(run, since) /\ CountersNonDecreasing(run, since)) =>
                \A field \in {"total_tokens", "request_count"} :
                    /\ LatestLess(run, FirstInnerTime(run, since), field) <= used(field)
                    /\ used(field) <= LatestLess(run, BaselineTime(run, since), field)

\* C34 happens: over a gap from Saturday 23:00 to Monday 03:00 both models
\* have grown, and the tokens written lie strictly between the two bounds.
C34_Witness ==
    \E id \in Upserted :
        LET run == last_run[id]
            since == rate_limit_status[id].window_start
        IN  /\ GapInterpolated(run, since)
            /\ CountersNonDecreasing(run, since)
            /\ run.config.model_pattern = "g"
            /\ ModelsAt(run, BaselineTime(run, since)) = Models
            /\ SetMax(TimesOf(run)) > FirstInnerTime(run, since)
            /\ LatestLess(run, FirstInnerTime(run, since), "total_tokens")
                  < rate_limit_status[id].used_tokens
            /\ rate_limit_status[id].used_tokens
                  < LatestLess(run, BaselineTime(run, since), "total_tokens")

\* -------------------------------------------------------------- SpecAppend
\* sync_limits for one daily or weekly config while the clock advances and
\* the collector appends snapshots of both models.
MaxAppended == 3

\* The clock readings of SpecAppend: Saturday 23:00, Sunday 23:45, Monday
\* 00:00 and 03:00, and Wednesday 10:00.
AppendInstants ==
    {5 * DAY + 23 * HOUR, 7 * DAY - 15 * MINUTE, 7 * DAY, 7 * DAY + 3 * HOUR,
     9 * DAY + 10 * HOUR}

\* Time passes: the clock reads the next of these instants.
Pass ==
    /\ \E t \in AppendInstants : t > clock
    /\ clock' = SetMin({t \in AppendInstants : t > clock})
    /\ UNCHANGED <<usage_rows, rate_limit_configs, rate_limit_status, sync, last_run>>
    /\ UNCHANGED <<collector, credentials, prices>>

\* The cumulative tokens of each model in an appended snapshot; 0: no row
\* of the model. A request is 1000 tokens.
AppendedContents ==
    {c \in [Models -> {0, 1000, 2000, 5000}] :
        /\ c["gemini-2.5-flash"] # 2000
        /\ c["gpt-4"] \in {0, 2000}
        /\ \E m \in Models : c[m] # 0}

\* main.py line 262 as rate_limiter.py sees it: the rows of one snapshot,
\* created at the present reading of the clock, appear.
AppendUsage ==
    /\ Cardinality({usage_rows[i].created_at : i \in DOMAIN usage_rows}) < MaxAppended
    /\ \A i \in DOMAIN usage_rows : usage_rows[i].created_at < clock
    /\ \E c \in AppendedContents : usage_rows' = usage_rows \o BatchRows(clock, c)
    /\ UNCHANGED <<clock, rate_limit_configs, rate_limit_status, sync, last_run>>
    /\ UNCHANGED <<collector, credentials, prices>>

AppendConfigs ==
    {[id |-> 1, model_pattern |-> "g", reset_strategy |-> sh[1],
      window_minutes |-> sh[2], token_limit |-> 10000, request_limit |-> 0,
      reset_anchor_timestamp |-> NoneValue] :
        sh \in {<<"daily", 1440>>, <<"weekly", 10080>>}}

InitAppend ==
    /\ InitCollector
    /\ InitCredentials
    /\ InitPrices
    /\ clock = SetMin(AppendInstants)
    /\ usage_rows = << >>
    /\ rate_limit_configs \in {<<c>> : c \in AppendConfigs}
    /\ rate_limit_status = << >>
    /\ sync = IdleSync
    /\ last_run = << >>

NextAppend ==
    \/ Pass
    \/ AppendUsage
    \/ SyncStart
    \/ ProcessConfig

SpecAppend == InitAppend /\ [][NextAppend]_vars

\* ------------------------------------------------------------------ C35
\* The created_at values of the rows of a sequence.
CreatedAt(rows) == {rows[i].created_at : i \in DOMAIN rows}

\* The counter of model m in the rows of created_at t of a sequence of rows;
\* 0 without such a row.
CounterIn(rows, t, m, field) ==
    LET of == {i \in DOMAIN rows : rows[i].created_at = t /\ rows[i].model_name = m}
    IN  SumFn([i \in of |-> rows[i][field]])

\* The step is a run of _process_config for the daily or weekly config id
\* that follows a run of the same config with the same window_start, both
\* having written a status, and since that run snapshots have been appended
\* and nothing else has changed in the rows.
RunAfterAppend(id) ==
    /\ id \in DOMAIN last_run
    /\ last_run'[id] # last_run[id]
    /\ last_run[id].outcome = "upserted"
    /\ last_run'[id].outcome = "upserted"
    /\ last_run'[id].config = last_run[id].config
    /\ last_run[id].config.reset_strategy \in {"daily", "weekly"}
    /\ rate_limit_status'[id].window_start = rate_limit_status[id].window_start
    /\ Len(last_run[id].rows) < Len(last_run'[id].rows)
    /\ SubSeq(last_run'[id].rows, 1, Len(last_run[id].rows)) = last_run[id].rows

\* No counter of a model is lower in an appended snapshot than in the
\* snapshot before it; a model without row in a snapshot has the counter 0
\* there.
AppendedNonDecreasing(id) ==
    LET old == last_run[id].rows
        new == last_run'[id].rows
        appended == CreatedAt(new) \ CreatedAt(old)
    IN  \A t \in appended :
            \A u \in {v \in CreatedAt(new) : v < t} :
                (\A v \in CreatedAt(new) : ~(u < v /\ v < t)) =>
                    \A m \in Models : \A field \in {"total_tokens", "request_count"} :
                        CounterIn(new, u, m, field) <= CounterIn(new, t, m, field)

\* C35: for a daily or weekly config whose effective window_start does not
\* change, the used_tokens and used_requests a run of sync_limits writes are
\* not below those the run before it wrote, when since then only snapshots
\* with non-decreasing per-model counters have been appended.
C35_UsageMonotone ==
    [][\A id \in DOMAIN last_run' :
          (RunAfterAppend(id) /\ AppendedNonDecreasing(id)) =>
             /\ rate_limit_status'[id].used_tokens >= rate_limit_status[id].used_tokens
             /\ rate_limit_status'[id].used_requests >= rate_limit_status[id].used_requests]_vars

\* C35 happens: the weekly config had usage written on Monday 03:00; a
\* snapshot in which both models have grown has been appended on Wednesday
\* 10:00, where its next run is under way.
C35_Witness ==
    /\ sync.pc = "loop"
    /\ clock = 9 * DAY + 10 * HOUR
    /\ 1 \in Upserted
    /\ last_run[1].config.reset_strategy = "weekly"
    /\ last_run[1].now = 7 * DAY + 3 * HOUR
    /\ rate_limit_status[1].used_tokens > 0
    /\ CreatedAt(usage_rows) \ CreatedAt(last_run[1].rows) = {9 * DAY + 10 * HOUR}
    /\ \A m \in Models :
          /\ CounterIn(usage_rows, 7 * DAY + 3 * HOUR, m, "total_tokens") > 0
          /\ CounterIn(usage_rows, 9 * DAY + 10 * HOUR, m, "total_tokens")
                >= CounterIn(usage_rows, 7 * DAY + 3 * HOUR, m, "total_tokens")

\* ----------------------------------------------------------- SpecEndpoints
\* Ticks that run one after another while two API keys use the two models.
MaxEndpointTicks == 3

\* The documents of two API keys: every key "model|endpoint" is absent (0),
\* at its first request, or, for the dear model, at MaxLevel.
EndpointDocs ==
    {d \in [Models \X {"api-key-1", "api-key-2"} -> {0, 1, MaxLevel}] :
        \A k \in DOMAIN d : k[1] = "gemini-2.5-flash" => d[k] <= 1}

\* The interval job (lines 576-590): one whole tick over such a document.
EndpointsTick ==
    /\ Len(log) < MaxEndpointTicks
    /\ \E doc \in EndpointDocs :
        \E after \in {store_usage_data(Store, doc, date)} :
            /\ usage_snapshots' = after.usage_snapshots
            /\ model_usage' = after.model_usage
            /\ daily_stats' = after.daily_stats
            /\ log' = Append(log,
                        [thread |-> "scheduler",
                         data |-> [ok |-> TRUE, has_usage |-> TRUE, doc |-> doc],
                         alone |-> TRUE, outcome |-> "stored",
                         writes |-> IF DocKeys(doc) = {}
                                    THEN <<"usage_snapshots", "usage_snapshots",
                                           "daily_stats">>
                                    ELSE <<"usage_snapshots", "model_usage",
                                           "usage_snapshots", "daily_stats">>])
    /\ UNCHANGED <<date, tick>>
    /\ UNCHANGED <<limits, credentials, prices>>

SpecEndpoints == Init /\ [][EndpointsTick]_vars

\* ------------------------------------------------------------------ C36
\* The sum of one field over the nested models of an endpoint's entry.
NestedSum(endpoint, field) ==
    SumFn([m \in DOMAIN endpoint.models |-> endpoint.models[m][field]])

\* The sum of one field over the endpoints of a breakdown.
EndpointsSum(breakdown, field) ==
    SumFn([e \in DOMAIN breakdown.endpoints |-> breakdown.endpoints[e][field]])

\* The sum of one field over the nested entries of model m across endpoints.
AcrossEndpoints(breakdown, m, field) ==
    SumFn([e \in {x \in DOMAIN breakdown.endpoints :
                     m \in DOMAIN breakdown.endpoints[x].models} |->
              breakdown.endpoints[e].models[m][field]])

\* C36: in every DailyStat written by ticks starting from an empty store the
\* endpoint view agrees with the model view: for requests, tokens and cost,
\* each endpoint's value is the sum over its nested models, the sum over all
\* endpoints is the sum over breakdown.models, and every model's value in
\* breakdown.models is the sum of its nested entries across endpoints, a
\* nested model being a model of breakdown.models.
C36_EndpointViewAgrees ==
    \A d \in DOMAIN daily_stats :
        LET breakdown == daily_stats[d].breakdown
        IN  \A field \in {"requests", "tokens", "cost"} :
                /\ \A e \in DOMAIN breakdown.endpoints :
                      /\ breakdown.endpoints[e][field]
                            = NestedSum(breakdown.endpoints[e], field)
                      /\ DOMAIN breakdown.endpoints[e].models
                            \subseteq DOMAIN breakdown.models
                /\ EndpointsSum(breakdown, field) = ModelsSum(breakdown, field)
                /\ \A m \in DOMAIN breakdown.models :
                      breakdown.models[m][field] = AcrossEndpoints(breakdown, m, field)

\* C36 happens: after three ticks the day's row has both models under both
\* endpoints, and a model with more requests than any one of its keys has.
C36_Witness ==
    /\ Len(log) = 3
    /\ \E d \in DOMAIN daily_stats :
        LET breakdown == daily_stats[d].breakdown
        IN  /\ DOMAIN breakdown.endpoints = {"api-key-1", "api-key-2"}
            /\ \A e \in DOMAIN breakdown.endpoints :
                  DOMAIN breakdown.endpoints[e].models = Models
            /\ \E m \in Models : \A e \in DOMAIN breakdown.endpoints :
                  /\ breakdown.endpoints[e].models[m].requests > 1
                  /\ breakdown.models[m].requests
                        > breakdown.endpoints[e].models[m].requests

\* ------------------------------------------------------------------ C37
\* The step is thread t's read of the day's row (lines 317-321).
ReadsDaily(t) ==
    /\ tick[t].pc = "select_daily_stats"
    /\ tick'[t].pc \in {"select_prev_usage", "upsert_daily_stats"}

\* The step is thread t's upsert of the day's row (line 550).
WritesDaily(t) ==
    /\ tick[t].pc = "upsert_daily_stats"
    /\ tick'[t].pc = "idle"
    /\ log'[tick[t].n].outcome = "stored"

\* What the tick of record tk counts for model m since its previous
\* snapshot, whenever that was taken: the deltas of the model's keys that
\* are added, or their current counters when there is no previous snapshot.
IncrementSincePrev(tk, m, field) ==
    LET contrib == contributions(IsSome(tk.prev_snap), tk.prev_usage_map,
                                 model_records(tk.doc, 0))
    IN  FieldSum(contrib, {k \in DOMAIN contrib : k[1] = m}, field)

\* C37: a tick reads and writes only the DailyStat whose stat_date is the
\* date the tick read from the clock: its read is of that date's row, no
\* step but its upsert changes daily_stats, the upsert leaves the rows of
\* all other dates as they are, and the row written is the row read plus
\* the whole increment since the previous snapshot, for every model and
\* for requests, tokens and cost.
C37_OnlyTodaysRow ==
    [][/\ \A t \in Threads :
             ReadsDaily(t) =>
                tick'[t].existing_daily = At(daily_stats, tick[t].today, NoDaily)
       /\ daily_stats' # daily_stats =>
             \E t \in Threads :
                 LET tk == tick[t]
                     written == daily_stats'[tk.today]
                 IN  /\ WritesDaily(t)
                     /\ DOMAIN daily_stats' = DOMAIN daily_stats \cup {tk.today}
                     /\ \A d \in DOMAIN daily_stats \ {tk.today} :
                            daily_stats'[d] = daily_stats[d]
                     /\ written.stat_date = tk.today
                     /\ \A m \in Models : \A field \in {"requests", "tokens", "cost"} :
                            At(written.breakdown.models, m, ZeroModel)[field]
                               = At(tk.existing_daily.breakdown.models, m, ZeroModel)[field]
                                 + IncrementSincePrev(tk, m, field)]_vars

\* C37 happens: a tick stored on date 0, midnight passed, and the next tick
\* stored on date 1: the row of date 0 holds the first snapshot's counters,
\* the row of date 1 the whole growth from the first snapshot to the second.
C37_Witness ==
    /\ date = 1
    /\ Len(log) = 2
    /\ \A i \in DOMAIN log : log[i].outcome = "stored" /\ log[i].alone
    /\ DOMAIN daily_stats = {0, 1}
    /\ daily_stats[0].total_requests = usage_snapshots[1].total_requests
    /\ daily_stats[0].total_requests > 0
    /\ daily_stats[1].total_requests
          = usage_snapshots[2].total_requests - usage_snapshots[1].total_requests
    /\ daily_stats[1].total_requests > 0
    /\ \A k \in Keys : usage_snapshots[2].raw_data[k] >= usage_snapshots[1].raw_data[k]

\* ------------------------------------------------------------------ C38
\* The sum of total_requests over the entries of a sequence.
RequestsOf(entries) == SumFn([k \in DOMAIN entries |-> entries[k].total_requests])

\* In an entry, successes and failures add up to the requests, and so do the
\* requests of its models.
Balanced(entry) ==
    /\ entry.success_count + entry.failure_count = entry.total_requests
    /\ entry.total_requests
          = SumFn([m \in DOMAIN entry.models |-> entry.models[m].requests])

\* The aggregation keys of the details of the document.
CredKeys == {KeyOf(SyncedDetails[i]) : i \in DOMAIN SyncedDetails}

\* The ways to tell which emitted credential belongs to which aggregation
\* key: one entry for each key, with as many requests as the key has details.
EntriesOfKeys ==
    {f \in [CredKeys -> DOMAIN Summary.credentials] :
        /\ \A c, e \in CredKeys : c # e => f[c] # f[e]
        /\ \A c \in CredKeys :
              Summary.credentials[f[c]].total_requests
                 = Cardinality({i \in DOMAIN SyncedDetails : KeyOf(SyncedDetails[i]) = c})}

\* Under f, a credential lists an API key exactly when the entry of that API
\* key lists the credential's aggregation key, and lists no other name.
CrossListed(f) ==
    \A c \in CredKeys :
        /\ \A k \in DOMAIN Summary.api_keys :
              Summary.api_keys[k].api_key_name \in Summary.credentials[f[c]].api_keys
                 <=> c \in Summary.api_keys[k].credentials_used
        /\ \A a \in Summary.credentials[f[c]].api_keys :
              \E k \in DOMAIN Summary.api_keys : Summary.api_keys[k].api_key_name = a

\* C38: aggregation conserves requests. For every usage document the sum of
\* total_requests over the emitted credentials, the sum over the emitted API
\* keys and the number of detail entries of the document are the same; in
\* every credential and every API key success_count + failure_count is
\* total_requests, and total_requests is the sum of the requests of its
\* models; and a credential lists an API key exactly when that API key lists
\* the credential's aggregation key.
C38_RequestsConserved ==
    Synced =>
        /\ RequestsOf(Summary.credentials) = Len(SyncedDetails)
        /\ RequestsOf(Summary.api_keys) = Len(SyncedDetails)
        /\ \A k \in DOMAIN Summary.credentials : Balanced(Summary.credentials[k])
        /\ \A k \in DOMAIN Summary.api_keys : Balanced(Summary.api_keys[k])
        /\ Len(Summary.credentials) = Cardinality(CredKeys)
        /\ \E f \in EntriesOfKeys : CrossListed(f)

\* C38 happens: one credential was used through two API keys, once with
\* success and once failing, next to a second credential used through one
\* of them.
C38_Witness ==
    /\ Synced
    /\ Len(SyncedDetails) = 2
    /\ Len(Summary.api_keys) = 2
    /\ \E k \in DOMAIN Summary.credentials :
          /\ Summary.credentials[k].total_requests = 2
          /\ Summary.credentials[k].success_count = 1
          /\ Summary.credentials[k].failure_count = 1
          /\ Summary.credentials[k].api_keys = {"key-1", "key-2"}
    /\ \A k \in DOMAIN Summary.api_keys :
          /\ Summary.api_keys[k].total_requests = 1
          /\ Cardinality(Summary.api_keys[k].credentials_used) = 1

\* ------------------------------------------------------------------ C39
\* C39: the emitted credentials sequence contains at most one entry per
\* credential: no two entries carry the same non-empty auth_index, for every
\* usage document and every auth-file catalog.
C39_OneEntryPerCredential ==
    Synced =>
        \A j, k \in DOMAIN Summary.credentials :
            (j # k /\ Summary.credentials[j].auth_index # "") =>
                Summary.credentials[j].auth_index # Summary.credentials[k].auth_index

=============================================================================
